---------------------------- MODULE Spec2Model ----------------------------
(***************************************************************************)
(* Model of the provider orchestration of src/src/services/ai_manager.py:  *)
(* QuotaManager, ContentValidator and AIManager (generate_content /        *)
(* generate_analysis with its fallback chain, failure bookkeeping and      *)
(* emergency templates).                                                   *)
(*                                                                         *)
(* Python values are modelled as tagged records: Str(s) is the str s,      *)
(* None is None.  Texts are TLA+ strings, so len, strip, lower, split and  *)
(* the `in` substring test are computed on the characters.                 *)
(***************************************************************************)
EXTENDS Integers, Sequences, FiniteSets, TLC

VARIABLES
    provider_limits,     \* QuotaManager.provider_limits
    providers,           \* AIManager.providers (the configured providers)
    disabled_providers,  \* AIManager.disabled_providers
    fallback_chain,      \* AIManager.fallback_chain
    now,                 \* the wall clock read by datetime.now() / time.time(), in seconds
    call,                \* the generate_content call in progress or last finished
    probe                \* the last direct call of a QuotaManager / ContentValidator method

vars == <<provider_limits, providers, disabled_providers, fallback_chain, now, call, probe>>

-----------------------------------------------------------------------------
(* Python values *)

None == [type |-> "NoneType", s |-> ""]
Str(s) == [type |-> "str", s |-> s]
PyInt(n) == [type |-> "int", s |-> "", n |-> n]

\* Python truthiness of the values used here
truthy(v) ==
    CASE v.type = "NoneType" -> FALSE
      [] v.type = "str" -> Len(v.s) > 0
      [] v.type = "int" -> v.n # 0
      [] OTHER -> TRUE

-----------------------------------------------------------------------------
(* str operations *)

Char(s, i) == SubSeq(s, i, i)

IsSpace(ch) == ch \in {" ", "\n", "\t", "\r"}

UPPER == "ABCDEFGHIJKLMNOPQRSTUVWXYZÁÂÃÀÉÊÍÓÔÕÚÇ"
LOWER == "abcdefghijklmnopqrstuvwxyzáâãàéêíóôõúç"

UpperChars == {Char(UPPER, i) : i \in 1..Len(UPPER)}
LowerChars == {Char(LOWER, i) : i \in 1..Len(LOWER)}

LowerChar(ch) ==
    IF ch \in UpperChars
    THEN Char(LOWER, CHOOSE i \in 1..Len(UPPER) : Char(UPPER, i) = ch)
    ELSE ch

\* str.lower()
RECURSIVE lower(_)
lower(s) ==
    IF Len(s) = 0 THEN ""
    ELSE IF Len(s) = 1 THEN LowerChar(s)
    ELSE LET h == Len(s) \div 2
         IN  lower(SubSeq(s, 1, h)) \o lower(SubSeq(s, h + 1, Len(s)))

\* str.upper() is used only on component names, which are ASCII
UpperChar(ch) ==
    IF ch \in LowerChars
    THEN Char(UPPER, CHOOSE i \in 1..Len(LOWER) : Char(LOWER, i) = ch)
    ELSE ch

RECURSIVE upper(_)
upper(s) ==
    IF Len(s) = 0 THEN ""
    ELSE IF Len(s) = 1 THEN UpperChar(s)
    ELSE LET h == Len(s) \div 2
         IN  upper(SubSeq(s, 1, h)) \o upper(SubSeq(s, h + 1, Len(s)))

\* str.strip()
strip(s) ==
    LET n == Len(s)
    IN  IF \A i \in 1..n : IsSpace(Char(s, i)) THEN ""
        ELSE LET lo == CHOOSE i \in 1..n :
                          ~IsSpace(Char(s, i)) /\ \A j \in 1..(i - 1) : IsSpace(Char(s, j))
                 hi == CHOOSE i \in 1..n :
                          ~IsSpace(Char(s, i)) /\ \A j \in (i + 1)..n : IsSpace(Char(s, j))
             IN  SubSeq(s, lo, hi)

\* sub in s
contains(s, sub) ==
    \/ Len(sub) = 0
    \/ LET first == Char(sub, 1)
           m == Len(sub)
       IN  \E i \in 1..(Len(s) - m + 1) :
               Char(s, i) = first /\ SubSeq(s, i, i + m - 1) = sub

\* s.startswith(prefix)
startswith(s, prefix) ==
    Len(s) >= Len(prefix) /\ SubSeq(s, 1, Len(prefix)) = prefix

\* The elements of a finite set of integers in increasing order
RECURSIVE SortedIn(_, _, _)
SortedIn(S, lo, hi) ==
    IF S = {} THEN <<>>
    ELSE IF lo = hi THEN <<lo>>
    ELSE LET mid == (lo + hi) \div 2
         IN  SortedIn({x \in S : x <= mid}, lo, mid)
                 \o SortedIn({x \in S : x > mid}, mid + 1, hi)

\* str.split(): the maximal runs of non-whitespace characters, in order
split(s) ==
    LET n == Len(s)
        starts == {i \in 1..n : ~IsSpace(Char(s, i)) /\ (i = 1 \/ IsSpace(Char(s, i - 1)))}
        sorted == SortedIn(starts, 1, n)
        end(i) == CHOOSE j \in i..n :
                      /\ j = n \/ IsSpace(Char(s, j + 1))
                      /\ \A k \in (i + 1)..j : ~IsSpace(Char(s, k))
    IN  [k \in 1..Len(sorted) |-> SubSeq(s, sorted[k], end(sorted[k]))]

Range(f) == {f[i] : i \in DOMAIN f}

\* str(n) for a natural number
Digit(d) == Char("0123456789", d + 1)

RECURSIVE ToStr(_)
ToStr(n) == IF n < 10 THEN Digit(n) ELSE ToStr(n \div 10) \o Digit(n % 10)

\* "sep".join of n copies of token
RECURSIVE Repeat(_, _, _)
Repeat(token, sep, n) ==
    IF n = 0 THEN ""
    ELSE IF n = 1 THEN token
    ELSE LET h == n \div 2
         IN  Repeat(token, sep, h) \o sep \o Repeat(token, sep, n - h)

\* worda word(a+1) ... wordb
RECURSIVE NumberedFrom(_, _, _)
NumberedFrom(word, a, b) ==
    IF a > b THEN ""
    ELSE IF a = b THEN word \o ToStr(a)
    ELSE LET h == (a + b) \div 2
         IN  NumberedFrom(word, a, h) \o " " \o NumberedFrom(word, h + 1, b)

\* word1 word2 ... wordn
Numbered(word, n) == NumberedFrom(word, 1, n)

-----------------------------------------------------------------------------
(* ContentValidator *)

GENERIC_PATTERNS ==
    << "customizado para", "adequado para", "personalizado",
       "este produto é ideal", "nossa solução", "produto ou serviço",
       "sua empresa", "seu negócio", "mercado específico" >>

MIN_CONTENT_LENGTH ==
    [mental_drivers |-> 500, visual_proofs |-> 300, anti_objection |-> 400, general |-> 200]

DEFAULT_MIN_LENGTH == 200

\* self.MIN_CONTENT_LENGTH.get(component, 200)
min_length(component) ==
    IF component \in DOMAIN MIN_CONTENT_LENGTH
    THEN MIN_CONTENT_LENGTH[component]
    ELSE DEFAULT_MIN_LENGTH

\* line 107: not content or not isinstance(content, str)
rule_empty(content) == ~truthy(content) \/ content.type # "str"

\* line 112 with min_length - 1 in place of min_length
rule_short_off_by_one(content, component) ==
    Len(strip(content.s)) < min_length(component) - 1

\* line 112: len(content.strip()) < min_length
rule_short(content, component) == Len(strip(content.s)) < min_length(component)

\* lines 116-117
generic_count(content) ==
    LET text == lower(content.s)
    IN  Cardinality({i \in DOMAIN GENERIC_PATTERNS :
                       contains(text, lower(GENERIC_PATTERNS[i]))})

\* line 118 with >= in place of >
rule_generic_eager(content) == generic_count(content) >= 3

\* line 118
rule_generic(content) == generic_count(content) > 3

\* lines 122-123 with the threshold 0.01 in place of 0.3
rule_repetitive_lenient(content) ==
    LET words == split(lower(content.s))
    IN  100 * Cardinality(Range(words)) < Len(words)

\* lines 122-123: len(set(words)) < len(words) * 0.3
rule_repetitive(content) ==
    LET words == split(lower(content.s))
    IN  10 * Cardinality(Range(words)) < 3 * Len(words)

MSG_EMPTY == "Conteúdo vazio ou inválido"
MSG_REPETITIVE == "Conteúdo muito repetitivo"
MSG_VALID == "Conteúdo válido"
msg_short(content, component) ==
    "Conteúdo muito curto: " \o ToStr(Len(content.s)) \o " < " \o ToStr(min_length(component))
msg_generic(content) ==
    "Muito genérico: " \o ToStr(generic_count(content)) \o " padrões encontrados"

\* lines 122-123 with the threshold 0.01 in place of 0.3
\* validate_content with the length rule moved after the repetition rule
validate_content_swapped(content, component) ==
    IF rule_empty(content) THEN [ok |-> FALSE, msg |-> MSG_EMPTY]
    ELSE IF rule_repetitive(content) THEN [ok |-> FALSE, msg |-> MSG_REPETITIVE]
    ELSE IF rule_generic(content) THEN [ok |-> FALSE, msg |-> msg_generic(content)]
    ELSE IF rule_short(content, component)
         THEN [ok |-> FALSE, msg |-> msg_short(content, component)]
    ELSE [ok |-> TRUE, msg |-> MSG_VALID]

validate_content(content, component) ==
    IF rule_empty(content) THEN [ok |-> FALSE, msg |-> MSG_EMPTY]
    ELSE IF rule_short(content, component)
         THEN [ok |-> FALSE, msg |-> msg_short(content, component)]
    ELSE IF rule_generic(content) THEN [ok |-> FALSE, msg |-> msg_generic(content)]
    ELSE IF rule_repetitive(content) THEN [ok |-> FALSE, msg |-> MSG_REPETITIVE]
    ELSE [ok |-> TRUE, msg |-> MSG_VALID]

-----------------------------------------------------------------------------
(* Time *)

\* timedelta(days=1), line 53, in seconds
DAY == 86400
\* the quota cooldown added to time.time(), line 310
COOLDOWN == 3600

\* The instants at which the orchestrator is called: construction time, the
\* end of a cooldown that started then, and the end of the first 24h window
ClockValues == {0, COOLDOWN, DAY}

-----------------------------------------------------------------------------
(* QuotaManager *)

Providers == {"gemini", "openai", "groq", "huggingface"}

\* The value None where a provider name is expected
NONE == "None"

\* The 'daily' limits of provider_limits (line 42-45: 45, 1000, 500, 200),
\* scaled down so that a window can be exhausted.
DAILY_GEMINI == 1
DAILY_OPENAI == 2
DAILY_GROQ == 2
DAILY_HUGGINGFACE == 2

\* QuotaManager.__init__ at time t ('hourly' is never read and is left out)
QuotaManager_init(t) ==
    [p \in Providers |->
        [daily |-> CASE p = "gemini" -> DAILY_GEMINI
                     [] p = "openai" -> DAILY_OPENAI
                     [] p = "groq" -> DAILY_GROQ
                     [] p = "huggingface" -> DAILY_HUGGINGFACE,
         requests_made |-> 0,
         last_reset |-> t]]

\* reset_counters without line 55: last_reset keeps its value
reset_counters_keep_stamp(limits, t) ==
    [p \in DOMAIN limits |->
        IF t - limits[p].last_reset >= DAY
        THEN [limits[p] EXCEPT !.requests_made = 0]
        ELSE limits[p]]


\* reset_counters with > in place of >= on line 53
reset_counters_strict(limits, t) ==
    [p \in DOMAIN limits |->
        IF t - limits[p].last_reset > DAY
        THEN [limits[p] EXCEPT !.requests_made = 0, !.last_reset = t]
        ELSE limits[p]]

\* reset_counters: the limits after the call at time t
reset_counters(limits, t) ==
    [p \in DOMAIN limits |->
        IF t - limits[p].last_reset >= DAY
        THEN [limits[p] EXCEPT !.requests_made = 0, !.last_reset = t]
        ELSE limits[p]]

\* can_use_provider that also admits a provider whose counter is at its limit
can_use_provider_inclusive(limits, provider, t) ==
    LET after == reset_counters(limits, t)
    IN  [value |-> IF provider \notin DOMAIN after THEN FALSE
                   ELSE after[provider].requests_made <= after[provider].daily,
         limits |-> after]


\* can_use_provider: the returned value and the limits after the call
can_use_provider(limits, provider, t) ==
    LET after == reset_counters(limits, t)
    IN  [value |-> IF provider \notin DOMAIN after THEN FALSE
                   ELSE after[provider].requests_made < after[provider].daily,
         limits |-> after]

\* increment_usage with every provider's counter incremented
increment_usage_all(limits, provider) ==
    IF provider \in DOMAIN limits
    THEN [p \in DOMAIN limits |-> [limits[p] EXCEPT !.requests_made = @ + 1]]
    ELSE limits

\* increment_usage
increment_usage(limits, provider) ==
    IF provider \in DOMAIN limits
    THEN [limits EXCEPT ![provider].requests_made = @ + 1]
    ELSE limits

priority_map ==
    [mental_drivers |-> <<"openai", "groq", "gemini", "huggingface">>,
     visual_proofs  |-> <<"gemini", "openai", "groq", "huggingface">>,
     anti_objection |-> <<"openai", "groq", "gemini", "huggingface">>,
     general        |-> <<"openai", "groq", "gemini", "huggingface">>]

\* get_best_provider passing over the providers of disabled_providers
get_best_provider_not_disabled(limits, component_type, t) ==
    LET priorities == IF component_type \in DOMAIN priority_map
                      THEN priority_map[component_type]
                      ELSE priority_map["general"]
        after == reset_counters(limits, t)
        usable == {i \in DOMAIN priorities :
                      /\ priorities[i] \notin disabled_providers
                      /\ can_use_provider(limits, priorities[i], t).value}
    IN  [value |-> IF usable = {} THEN NONE
                   ELSE priorities[CHOOSE i \in usable : \A j \in usable : i <= j],
         limits |-> after]

\* get_best_provider: the returned name (or NONE) and the limits after the call
get_best_provider(limits, component_type, t) ==
    LET priorities == IF component_type \in DOMAIN priority_map
                      THEN priority_map[component_type]
                      ELSE priority_map["general"]
        after == reset_counters(limits, t)
        usable == {i \in DOMAIN priorities : can_use_provider(limits, priorities[i], t).value}
    IN  [value |-> IF usable = {} THEN NONE
                   ELSE priorities[CHOOSE i \in usable : \A j \in usable : i <= j],
         limits |-> after]

-----------------------------------------------------------------------------
(* AIManager: construction *)

\* last_success = None
NEVER == -1

\* _load_emergency_templates: each template as its literal pieces and its
\* replacement fields, in order
emergency_templates ==
    [mental_drivers |->
        << "\nDRIVER MENTAL CUSTOMIZADO: ",
           "{segmento}",
           "\n\n1. DRIVER DA TRANSFORMAÇÃO NECESSÁRIA\n- Gatilho: Frustração com resultados atuais\n- Mecânica: Contraste entre situação atual e potencial\n- Ativação: \"Você já tentou de tudo, mas sempre falta algo crucial...\"\n\n2. DRIVER DA OPORTUNIDADE PERDIDA\n- Gatilho: Medo de ficar para trás\n- Mecânica: Urgência competitiva\n- Ativação: \"Enquanto você hesita, seus concorrentes avançam...\"\n\n3. DRIVER DA AUTORIDADE RECONHECIDA\n- Gatilho: Desejo de ser respeitado\n- Mecânica: Validação social\n- Ativação: \"Imagine ser a referência em ",
           "{segmento}",
           "...\"\n" >>,
     visual_proofs |->
        << "\nPROVA VISUAL 1: TRANSFORMAÇÃO DRAMÁTICA\n- Conceito: Antes vs Depois em ",
           "{segmento}",
           "\n- Execução: Comparação visual clara de resultados\n- Materiais: Gráficos, dados, métricas\n\nPROVA VISUAL 2: MÉTODO REVELADO\n- Conceito: Como funciona na prática\n- Execução: Demonstração passo a passo\n- Materiais: Diagramas, fluxogramas\n\nPROVA VISUAL 3: PROVA SOCIAL\n- Conceito: Outros já conseguiram\n- Execução: Cases de sucesso documentados\n- Materiais: Depoimentos, resultados\n" >>,
     anti_objection |->
        << "\nSISTEMA ANTI-OBJEÇÃO: ",
           "{segmento}",
           "\n\nOBJEÇÃO: \"Não tenho tempo\"\nRESPOSTA: O tempo que você 'não tem' para se capacitar é exatamente o tempo que está perdendo com ineficiência.\n\nOBJEÇÃO: \"É muito caro\"\nRESPOSTA: O custo de não agir é sempre maior que o investimento em crescimento.\n\nOBJEÇÃO: \"Já tentei outras coisas\"\nRESPOSTA: As tentativas anteriores falharam porque faltava metodologia sistêmica.\n" >>]

\* The record initialize_providers stores for a provider whose credentials are
\* present.  has_model: the record has the key 'model' (huggingface's record has
\* 'models' instead).  quota_exceeded and reactivate_at are read with
\* .get(..., False) and .get(..., 0) until first written.
provider_record(p) ==
    [available |-> TRUE,
     has_model |-> p # "huggingface",
     priority |-> CASE p = "gemini" -> 1 [] p = "openai" -> 2
                    [] p = "groq" -> 3 [] p = "huggingface" -> 4,
     error_count |-> 0,
     consecutive_failures |-> 0,
     max_errors |-> IF p = "groq" THEN 3 ELSE 5,
     last_success |-> NEVER,
     quota_exceeded |-> FALSE,
     reactivate_at |-> 0]

\* line 134
INITIAL_CHAIN == <<"openai", "groq", "gemini", "huggingface">>

\* initialize_providers, for the set of providers whose credentials are present
initialize_providers(configured) ==
    LET provs == [p \in configured |-> provider_record(p)]
    IN  [providers |-> provs,
         fallback_chain |->
             SelectSeq(INITIAL_CHAIN, LAMBDA p : p \in DOMAIN provs /\ provs[p].available)]

-----------------------------------------------------------------------------
(* The provider calls and their answers *)

Return(v) == [kind |-> "return", value |-> v, exc |-> ""]
Raise(exc, arg) == [kind |-> "raise", value |-> Str(arg), exc |-> exc]
NoResult == [kind |-> "pending", value |-> None, exc |-> ""]

\* What a provider call can do: return a value or raise
OUT_NONE == None
OUT_SHORT == Str("abcdefghij")
OUT_MEDIUM == Str(Numbered("item", 12))
OUT_REPETITIVE == Str(Repeat("abcde", " ", 100))
OUT_VARIED == Str(Numbered("palavra", 110))
EXC_TRANSIENT == "Connection error."
EXC_QUOTA == "Error code: 429 - Rate limit reached for requests"

Answers == {OUT_NONE, OUT_SHORT, OUT_MEDIUM, OUT_REPETITIVE, OUT_VARIED}

Outcomes ==
    {Return(v) : v \in Answers}
    \cup {Raise("Exception", m) : m \in {EXC_TRANSIENT, EXC_QUOTA}}

\* The component types generate_content is called with: one with a template
\* and an ordering of its own, and the default
CallComponents == {"visual_proofs", "general"}

\* The data keyword argument generate_content is called with
EmptyDict == [k \in {} |-> ""]
DataInputs == {EmptyDict}

\* line 489: the minimum length of a provider's answer
MIN_RESULT_LENGTH == 50

\* line 489: not result or len(result.strip()) < 50
result_too_short(result) == ~truthy(result) \/ Len(strip(result.s)) < MIN_RESULT_LENGTH

\* The checks on the provider answers, computed once
Verdicts == [v \in Answers, c \in CallComponents |-> validate_content(v, c)]
TooShort == [v \in Answers |-> result_too_short(v)]

too_short(result) ==
    IF result \in DOMAIN TooShort THEN TooShort[result] ELSE result_too_short(result)

validate(content, component) ==
    IF <<content, component>> \in DOMAIN Verdicts
    THEN Verdicts[content, component]
    ELSE validate_content(content, component)

\* The messages _register_failure is called with
FailureMessages ==
    {EXC_TRANSIENT, EXC_QUOTA}
    \cup {"Conteúdo rejeitado: " \o Verdicts[v, c].msg : v \in Answers, c \in CallComponents}

-----------------------------------------------------------------------------
(* AIManager: bookkeeping.  S is the mutable state                          *)
(* [limits, providers, disabled] threaded through the methods.             *)

QUOTA_INDICATORS == {"quota", "rate limit", "too many requests", "insufficient_quota"}

\* lines 304-305
is_quota_error(error_msg) ==
    \E quota_indicator \in QUOTA_INDICATORS : contains(lower(error_msg), quota_indicator)

\* The same, computed once for the messages above
QuotaErrors == [m \in FailureMessages |-> is_quota_error(m)]

quota_error(error_msg) ==
    IF error_msg \in DOMAIN QuotaErrors THEN QuotaErrors[error_msg]
    ELSE is_quota_error(error_msg)

\* _register_failure that opens the circuit one failure late
register_failure_late_trip(S, provider_name, error_msg, t) ==
    IF provider_name \notin DOMAIN S.providers THEN S
    ELSE
      LET quota == quota_error(error_msg)
          provs == IF quota
                   THEN [S.providers EXCEPT ![provider_name].quota_exceeded = TRUE,
                                            ![provider_name].reactivate_at = t + COOLDOWN]
                   ELSE [S.providers EXCEPT ![provider_name].error_count = @ + 1,
                                            ![provider_name].consecutive_failures = @ + 1]
          dis == IF quota THEN S.disabled \cup {provider_name} ELSE S.disabled
      IN  [S EXCEPT !.providers = provs,
                    !.disabled =
                        IF provs[provider_name].consecutive_failures
                              > provs[provider_name].max_errors
                        THEN dis \cup {provider_name}
                        ELSE dis]


\* _register_failure that also clears 'available' when the circuit opens
register_failure_unavailable(S, provider_name, error_msg, t) ==
    IF provider_name \notin DOMAIN S.providers THEN S
    ELSE
      LET quota == quota_error(error_msg)
          provs == IF quota
                   THEN [S.providers EXCEPT ![provider_name].quota_exceeded = TRUE,
                                            ![provider_name].reactivate_at = t + COOLDOWN]
                   ELSE [S.providers EXCEPT ![provider_name].error_count = @ + 1,
                                            ![provider_name].consecutive_failures = @ + 1]
          open == provs[provider_name].consecutive_failures
                     >= provs[provider_name].max_errors
      IN  [S EXCEPT !.providers =
                        IF quota \/ open
                        THEN [provs EXCEPT ![provider_name].available = FALSE]
                        ELSE provs,
                    !.disabled = IF quota \/ open
                                 THEN @ \cup {provider_name} ELSE @]


\* _register_failure without lines 317-319
register_failure_no_trip(S, provider_name, error_msg, t) ==
    IF provider_name \notin DOMAIN S.providers THEN S
    ELSE
      LET quota == quota_error(error_msg)
      IN  IF quota
          THEN [S EXCEPT !.providers[provider_name].quota_exceeded = TRUE,
                         !.providers[provider_name].reactivate_at = t + COOLDOWN,
                         !.disabled = @ \cup {provider_name}]
          ELSE [S EXCEPT !.providers[provider_name].error_count = @ + 1,
                         !.providers[provider_name].consecutive_failures = @ + 1]

\* _register_failure with lines 312-313 run for a quota error too
register_failure_counting(S, provider_name, error_msg, t) ==
    IF provider_name \notin DOMAIN S.providers THEN S
    ELSE
      LET quota == quota_error(error_msg)
          counted == [S.providers EXCEPT ![provider_name].error_count = @ + 1,
                                         ![provider_name].consecutive_failures = @ + 1]
          provs == IF quota
                   THEN [counted EXCEPT ![provider_name].quota_exceeded = TRUE,
                                        ![provider_name].reactivate_at = t + COOLDOWN]
                   ELSE counted
          dis == IF quota THEN S.disabled \cup {provider_name} ELSE S.disabled
      IN  [S EXCEPT !.providers = provs,
                    !.disabled =
                        IF provs[provider_name].consecutive_failures
                              >= provs[provider_name].max_errors
                        THEN dis \cup {provider_name}
                        ELSE dis]

\* _register_failure at time t
register_failure(S, provider_name, error_msg, t) ==
    IF provider_name \notin DOMAIN S.providers THEN S
    ELSE
      LET quota == quota_error(error_msg)
          provs == IF quota
                   THEN [S.providers EXCEPT ![provider_name].quota_exceeded = TRUE,
                                            ![provider_name].reactivate_at = t + COOLDOWN]
                   ELSE [S.providers EXCEPT ![provider_name].error_count = @ + 1,
                                            ![provider_name].consecutive_failures = @ + 1]
          dis == IF quota THEN S.disabled \cup {provider_name} ELSE S.disabled
      IN  [S EXCEPT !.providers = provs,
                    !.disabled =
                        IF provs[provider_name].consecutive_failures
                              >= provs[provider_name].max_errors
                        THEN dis \cup {provider_name}
                        ELSE dis]

\* _register_success that also clears error_count
register_success_clear_errors(S, provider_name, t) ==
    IF provider_name \notin DOMAIN S.providers THEN S
    ELSE [S EXCEPT !.providers[provider_name].consecutive_failures = 0,
                   !.providers[provider_name].error_count = 0,
                   !.providers[provider_name].last_success = t,
                   !.disabled = @ \ {provider_name}]


\* _register_success that also lifts the quota suspension
register_success_clear_quota(S, provider_name, t) ==
    IF provider_name \notin DOMAIN S.providers THEN S
    ELSE [S EXCEPT !.providers[provider_name].consecutive_failures = 0,
                   !.providers[provider_name].last_success = t,
                   !.providers[provider_name].quota_exceeded = FALSE,
                   !.providers[provider_name].reactivate_at = 0,
                   !.disabled = @ \ {provider_name}]


\* _register_success without lines 326-327
register_success_forgetful(S, provider_name, t) ==
    IF provider_name \notin DOMAIN S.providers THEN S
    ELSE [S EXCEPT !.disabled = @ \ {provider_name}]

\* _register_success without lines 328-329
register_success_keep_disabled(S, provider_name, t) ==
    IF provider_name \notin DOMAIN S.providers THEN S
    ELSE [S EXCEPT !.providers[provider_name].consecutive_failures = 0,
                   !.providers[provider_name].last_success = t]

\* _register_success at time t
register_success(S, provider_name, t) ==
    IF provider_name \notin DOMAIN S.providers THEN S
    ELSE [S EXCEPT !.providers[provider_name].consecutive_failures = 0,
                   !.providers[provider_name].last_success = t,
                   !.disabled = @ \ {provider_name}]

\* _check_and_reactivate_providers that releases a provider and leaves its
\* quota_exceeded and reactivate_at as they are
check_and_reactivate_providers_keep_schedule(S, current_time) ==
    LET due == {p \in S.disabled :
                  LET reactivate_at == IF p \in DOMAIN S.providers
                                       THEN S.providers[p].reactivate_at ELSE 0
                  IN  reactivate_at > 0 /\ current_time >= reactivate_at}
    IN  [S EXCEPT !.disabled = @ \ due,
                  !.providers = [p \in DOMAIN S.providers |->
                      IF p \in due
                      THEN [S.providers[p] EXCEPT !.consecutive_failures = 0]
                      ELSE S.providers[p]]]


\* _check_and_reactivate_providers with > in place of >= on line 579
check_and_reactivate_providers_late(S, current_time) ==
    LET due == {p \in S.disabled :
                  LET reactivate_at == IF p \in DOMAIN S.providers
                                       THEN S.providers[p].reactivate_at ELSE 0
                  IN  reactivate_at > 0 /\ current_time > reactivate_at}
    IN  [S EXCEPT !.disabled = @ \ due,
                  !.providers = [p \in DOMAIN S.providers |->
                      IF p \in due
                      THEN [S.providers[p] EXCEPT !.quota_exceeded = FALSE,
                                                  !.consecutive_failures = 0,
                                                  !.reactivate_at = 0]
                      ELSE S.providers[p]]]

\* _check_and_reactivate_providers without the test reactivate_at > 0 of line 579
check_and_reactivate_providers_unscheduled(S, current_time) ==
    LET due == {p \in S.disabled :
                  LET reactivate_at == IF p \in DOMAIN S.providers
                                       THEN S.providers[p].reactivate_at ELSE 0
                  IN  current_time >= reactivate_at}
    IN  [S EXCEPT !.disabled = @ \ due,
                  !.providers = [p \in DOMAIN S.providers |->
                      IF p \in due
                      THEN [S.providers[p] EXCEPT !.quota_exceeded = FALSE,
                                                  !.consecutive_failures = 0,
                                                  !.reactivate_at = 0]
                      ELSE S.providers[p]]]

\* _check_and_reactivate_providers at time current_time
check_and_reactivate_providers(S, current_time) ==
    LET due == {p \in S.disabled :
                  LET reactivate_at == IF p \in DOMAIN S.providers
                                       THEN S.providers[p].reactivate_at ELSE 0
                  IN  reactivate_at > 0 /\ current_time >= reactivate_at}
    IN  [S EXCEPT !.disabled = @ \ due,
                  !.providers = [p \in DOMAIN S.providers |->
                      IF p \in due
                      THEN [S.providers[p] EXCEPT !.quota_exceeded = FALSE,
                                                  !.consecutive_failures = 0,
                                                  !.reactivate_at = 0]
                      ELSE S.providers[p]]]

-----------------------------------------------------------------------------
(* AIManager: emergency content *)

\* dict.get(key, default) on a dict of strings
dict_get(d, key, default) == IF key \in DOMAIN d THEN d[key] ELSE default

\* template.format(segmento=..., produto=...)
RECURSIVE format(_, _, _)
format(template, segmento, produto) ==
    IF template = <<>> THEN ""
    ELSE (CASE Head(template) = "{segmento}" -> segmento
            [] Head(template) = "{produto}" -> produto
            [] OTHER -> Head(template))
         \o format(Tail(template), segmento, produto)

\* _generate_emergency_content.  Line 513 evaluates
\* self.emergency_templates['general'] as the default argument of .get before
\* the lookup, outside the try block.  The except branch of lines 528-541 is
\* taken by no input: format raises on none of the templates.
generate_emergency_content(component_type, data) ==
    IF "general" \notin DOMAIN emergency_templates
    THEN Raise("KeyError", "'general'")
    ELSE LET template == IF component_type \in DOMAIN emergency_templates
                         THEN emergency_templates[component_type]
                         ELSE emergency_templates["general"]
         IN  Return(Str(format(template,
                               dict_get(data, "segmento", "negócios"),
                               dict_get(data, "produto", "produto/serviço"))))

-----------------------------------------------------------------------------
(* AIManager: one generate_content call.  The call is split where it blocks *)
(* on a provider: Begin runs from the entry of generate_content to the      *)
(* first provider call (or to the end), Respond from a provider's answer to *)
(* the next provider call (or to the end).                                  *)

\* _try_provider_with_validation, lines 437-448: up to the provider call
try_provider_enter(S, provider_name) ==
    IF provider_name \notin DOMAIN S.providers
    THEN [kind |-> "none", S |-> S]
    ELSE IF ~S.providers[provider_name].has_model
    THEN [kind |-> "raise", S |-> S]
    ELSE [kind |-> "invoke", S |-> [S EXCEPT !.limits = increment_usage(@, provider_name)]]

\* _try_provider_with_validation returning None on line 504
try_provider_respond_discard(S, provider_name, outcome, component_type, t) ==
    IF outcome.kind = "raise"
    THEN [value |-> None, S |-> register_failure(S, provider_name, outcome.value.s, t)]
    ELSE LET result == outcome.value
         IN  IF too_short(result)
             THEN [value |-> None, S |-> S]
             ELSE LET v == validate(result, component_type)
                  IN  IF ~v.ok
                      THEN [value |-> None,
                            S |-> register_failure(S, provider_name,
                                                   "Conteúdo rejeitado: " \o v.msg, t)]
                      ELSE [value |-> None, S |-> register_success(S, provider_name, t)]

\* _try_provider_with_validation without line 499
try_provider_respond_lenient(S, provider_name, outcome, component_type, t) ==
    IF outcome.kind = "raise"
    THEN [value |-> None, S |-> register_failure(S, provider_name, outcome.value.s, t)]
    ELSE LET result == outcome.value
         IN  IF too_short(result)
             THEN [value |-> None, S |-> S]
             ELSE LET v == validate(result, component_type)
                  IN  IF ~v.ok
                      THEN [value |-> None, S |-> S]
                      ELSE [value |-> result, S |-> register_success(S, provider_name, t)]

\* _try_provider_with_validation, lines 489-509: from the provider's answer;
\* the returned value and the state after
try_provider_respond(S, provider_name, outcome, component_type, t) ==
    IF outcome.kind = "raise"
    THEN [value |-> None, S |-> register_failure(S, provider_name, outcome.value.s, t)]
    ELSE LET result == outcome.value
         IN  IF too_short(result)
             THEN [value |-> None, S |-> S]
             ELSE LET v == validate(result, component_type)
                  IN  IF ~v.ok
                      THEN [value |-> None,
                            S |-> register_failure(S, provider_name,
                                                   "Conteúdo rejeitado: " \o v.msg, t)]
                      ELSE [value |-> result, S |-> register_success(S, provider_name, t)]

\* The loop of lines 421-429 without the test of line 422 for best_provider
RECURSIVE fallback_from_retry_best(_, _, _, _, _)
fallback_from_retry_best(S, chain, i, best_provider, t) ==
    IF i > Len(chain) THEN [kind |-> "exhausted", S |-> S, i |-> i, p |-> NONE]
    ELSE LET provider_name == chain[i]
         IN  IF provider_name \in S.disabled
             THEN fallback_from_retry_best(S, chain, i + 1, best_provider, t)
             ELSE LET cu == can_use_provider(S.limits, provider_name, t)
                      S1 == [S EXCEPT !.limits = cu.limits]
                      e == try_provider_enter(S1, provider_name)
                  IN  IF ~cu.value
                      THEN fallback_from_retry_best(S1, chain, i + 1, best_provider, t)
                      ELSE IF e.kind = "none"
                      THEN fallback_from_retry_best(e.S, chain, i + 1, best_provider, t)
                      ELSE [kind |-> e.kind, S |-> e.S, i |-> i, p |-> provider_name]


\* The loop of lines 416-429 without the test of lines 420-421
RECURSIVE fallback_from_no_disabled_check(_, _, _, _, _)
fallback_from_no_disabled_check(S, chain, i, best_provider, t) ==
    IF i > Len(chain) THEN [kind |-> "exhausted", S |-> S, i |-> i, p |-> NONE]
    ELSE LET provider_name == chain[i]
         IN  IF provider_name = best_provider
             THEN fallback_from_no_disabled_check(S, chain, i + 1, best_provider, t)
             ELSE LET cu == can_use_provider(S.limits, provider_name, t)
                      S1 == [S EXCEPT !.limits = cu.limits]
                      e == try_provider_enter(S1, provider_name)
                  IN  IF ~cu.value
                      THEN fallback_from_no_disabled_check(S1, chain, i + 1, best_provider, t)
                      ELSE IF e.kind = "none"
                      THEN fallback_from_no_disabled_check(e.S, chain, i + 1, best_provider, t)
                      ELSE [kind |-> e.kind, S |-> e.S, i |-> i, p |-> provider_name]

\* generate_analysis, lines 416-429: the loop from index i of the chain up to
\* the next provider call
RECURSIVE fallback_from(_, _, _, _, _)
fallback_from(S, chain, i, best_provider, t) ==
    IF i > Len(chain) THEN [kind |-> "exhausted", S |-> S, i |-> i, p |-> NONE]
    ELSE LET provider_name == chain[i]
         IN  IF provider_name = best_provider
             THEN fallback_from(S, chain, i + 1, best_provider, t)
             ELSE IF provider_name \in S.disabled
             THEN fallback_from(S, chain, i + 1, best_provider, t)
             ELSE LET cu == can_use_provider(S.limits, provider_name, t)
                      S1 == [S EXCEPT !.limits = cu.limits]
                      e == try_provider_enter(S1, provider_name)
                  IN  IF ~cu.value
                      THEN fallback_from(S1, chain, i + 1, best_provider, t)
                      ELSE IF e.kind = "none"
                      THEN fallback_from(e.S, chain, i + 1, best_provider, t)
                      ELSE [kind |-> e.kind, S |-> e.S, i |-> i, p |-> provider_name]

\* generate_analysis without the sweep of line 404
analysis_begin_no_sweep(S, chain, component_type, t) ==
    LET b == get_best_provider(S.limits, component_type, t)
        S2 == [S EXCEPT !.limits = b.limits]
        e == IF b.value # NONE /\ b.value \notin S2.disabled
             THEN try_provider_enter(S2, b.value)
             ELSE [kind |-> "none", S |-> S2]
        step == IF e.kind = "none"
                THEN fallback_from(e.S, chain, 1, b.value, t)
                ELSE [kind |-> e.kind, S |-> e.S, i |-> 0, p |-> b.value]
    IN  [best |-> b.value, step |-> step]

\* generate_analysis, lines 404-413: up to the first provider call
analysis_begin(S, chain, component_type, t) ==
    LET S1 == check_and_reactivate_providers(S, t)
        b == get_best_provider(S1.limits, component_type, t)
        S2 == [S1 EXCEPT !.limits = b.limits]
        e == IF b.value # NONE /\ b.value \notin S2.disabled
             THEN try_provider_enter(S2, b.value)
             ELSE [kind |-> "none", S |-> S2]
        step == IF e.kind = "none"
                THEN fallback_from(e.S, chain, 1, b.value, t)
                ELSE [kind |-> e.kind, S |-> e.S, i |-> 0, p |-> b.value]
    IN  [best |-> b.value, step |-> step]

\* generate_content, lines 554-568: from the value generate_analysis returned
content_tail(content, component_type) ==
    IF truthy(content) /\ ~startswith(content.s, "Erro:")
                       /\ ~startswith(content.s, "CONTEÚDO DE EMERGÊNCIA:")
    THEN IF validate(content, component_type).ok
         THEN Return(content)
         ELSE generate_emergency_content(component_type, [segmento |-> component_type])
    ELSE IF ~truthy(content)
         THEN generate_emergency_content(component_type, [segmento |-> component_type])
         ELSE Return(content)

\* generate_analysis, line 433, and its caller: all providers skipped or failed
exhausted_result(component_type, data) ==
    LET r == generate_emergency_content(component_type, data)
    IN  IF r.kind = "raise" THEN r ELSE content_tail(r.value, component_type)

\* The record of a call: where it stands (pc), its arguments, best_provider,
\* the chain index i and the provider cur of the attempt in progress (i = 0:
\* the attempt on best_provider), the providers _try_provider_with_validation
\* went on with past line 439 (tried), the provider calls made with their
\* answers (invoked), how the call ended (end), what it returned or raised
\* (result), and the time and state at which it began (t0, pre).
IdleCall ==
    [pc |-> "idle", component |-> "general", data |-> EmptyDict, best |-> NONE,
     i |-> 0, cur |-> NONE, tried |-> <<>>, invoked |-> <<>>, end |-> "none",
     result |-> NoResult, t0 |-> 0,
     pre |-> [limits |-> <<>>, providers |-> <<>>, disabled |-> {}]]

State == [limits |-> provider_limits, providers |-> providers, disabled |-> disabled_providers]

SetState(S) ==
    /\ provider_limits' = S.limits
    /\ providers' = S.providers
    /\ disabled_providers' = S.disabled

\* The call after a step that ended at a provider call, a raise or exhaustion
after_step(c, step) ==
    CASE step.kind = "invoke" ->
            [c EXCEPT !.pc = "invoking", !.i = step.i, !.cur = step.p,
                      !.tried = Append(@, step.p)]
      [] step.kind = "raise" ->
            [c EXCEPT !.pc = "done", !.i = step.i, !.cur = step.p,
                      !.tried = Append(@, step.p), !.end = "error",
                      !.result = Raise("KeyError", "'model'")]
      [] step.kind = "exhausted" ->
            [c EXCEPT !.pc = "done", !.i = step.i, !.cur = NONE, !.end = "exhausted",
                      !.result = exhausted_result(c.component, c.data)]

\* generate_content(prompt, component_type=..., data=...) is called
Begin(component_type, data) ==
    /\ call.pc \in {"idle", "done"}
    /\ LET c0 == [IdleCall EXCEPT !.component = component_type, !.data = data,
                                  !.t0 = now, !.pre = State]
       IN  IF ~\E p \in DOMAIN providers : providers[p].available
           THEN /\ call' = [c0 EXCEPT !.pc = "done", !.end = "unavailable",
                               !.result = Return(Str("Erro: Nenhum provedor de IA disponível."))]
                /\ UNCHANGED <<provider_limits, providers, disabled_providers>>
           ELSE LET a == analysis_begin(State, fallback_chain, component_type, now)
                IN  /\ call' = after_step([c0 EXCEPT !.best = a.best], a.step)
                    /\ SetState(a.step.S)
    /\ UNCHANGED <<fallback_chain, now, probe>>

\* The provider call of the call in progress returns or raises
Respond(outcome) ==
    /\ call.pc = "invoking"
    /\ LET r == try_provider_respond(State, call.cur, outcome, call.component, now)
           c1 == [call EXCEPT !.invoked = Append(@, [p |-> call.cur, outcome |-> outcome])]
       IN  IF truthy(r.value)
           THEN /\ call' = [c1 EXCEPT !.pc = "done", !.end = "accepted",
                                      !.result = content_tail(r.value, call.component)]
                /\ SetState(r.S)
           ELSE LET step == fallback_from(r.S, fallback_chain, call.i + 1, call.best, now)
                IN  /\ call' = after_step(c1, step)
                    /\ SetState(step.S)
    /\ UNCHANGED <<fallback_chain, now, probe>>

\* Time passes between two steps (a provider call is taken to answer within
\* the instant it was made)
Tick ==
    /\ call.pc # "invoking"
    /\ \E t \in ClockValues : t > now /\ now' = t
    /\ UNCHANGED <<provider_limits, providers, disabled_providers, fallback_chain, call, probe>>

NoProbe == [op |-> "none"]

\* The sets of providers whose credentials are present
Configurations ==
    {{}, {"openai"}, {"huggingface"}, {"gemini", "groq", "huggingface"}}

\* AIManager() is constructed at time 0
Init ==
    \E configured \in Configurations :
        LET m == initialize_providers(configured)
        IN  /\ provider_limits = QuotaManager_init(0)
            /\ providers = m.providers
            /\ fallback_chain = m.fallback_chain
            /\ disabled_providers = {}
            /\ now = 0
            /\ call = IdleCall
            /\ probe = NoProbe

Next ==
    \/ \E component_type \in CallComponents, data \in DataInputs : Begin(component_type, data)
    \/ \E outcome \in Outcomes : Respond(outcome)
    \/ Tick

Spec == Init /\ [][Next]_vars

-----------------------------------------------------------------------------
(* QuotaManager called directly: can_use_provider, increment_usage and      *)
(* get_best_provider at the instants of QuotaClockValues.  probe records    *)
(* the last call: its argument, the value it returned, the entry of the     *)
(* provider before the call and the time of the call.                       *)

\* Construction time, and the instants around the end of the first window
QuotaClockValues == {0, DAY - 1, DAY, DAY + 1}

\* The names the methods are called with: the providers and an unknown name
QuotaArguments == Providers \cup {"other"}

\* The component types get_best_provider is called with: those of the calls and
\* one that priority_map does not have
QuotaComponents == CallComponents \cup {"other"}

\* The sets of providers whose credentials are present
QuotaConfigurations == {{}, {"openai"}}

Entry(limits, provider) ==
    IF provider \in DOMAIN limits THEN limits[provider]
    ELSE [daily |-> 0, requests_made |-> 0, last_reset |-> 0]

QuotaUnchanged == UNCHANGED <<providers, disabled_providers, fallback_chain, call>>

QCanUse(provider) ==
    /\ LET r == can_use_provider(provider_limits, provider, now)
       IN  /\ provider_limits' = r.limits
           /\ probe' = [op |-> "can_use_provider", arg |-> provider, value |-> r.value,
                        before |-> Entry(provider_limits, provider), at |-> now]
    /\ UNCHANGED now
    /\ QuotaUnchanged

\* The usage counter is followed up to one request past the daily limit
QIncrement(provider) ==
    /\ Entry(provider_limits, provider).requests_made
           <= Entry(provider_limits, provider).daily
    /\ provider_limits' = increment_usage(provider_limits, provider)
    /\ probe' = [op |-> "increment_usage", arg |-> provider, value |-> FALSE,
                 before |-> Entry(provider_limits, provider), at |-> now]
    /\ UNCHANGED now
    /\ QuotaUnchanged

QBest(component_type) ==
    /\ LET r == get_best_provider(provider_limits, component_type, now)
       IN  /\ provider_limits' = r.limits
           /\ probe' = [op |-> "get_best_provider", arg |-> component_type,
                        value |-> r.value,
                        before |-> Entry(provider_limits, r.value), at |-> now]
    /\ UNCHANGED now
    /\ QuotaUnchanged

\* An attempt on a provider that can be used, answered with a rate-limit error:
\* line 448 counts it and line 508 registers the failure
QSuspended(provider) ==
    /\ provider \in DOMAIN providers
    /\ provider \notin disabled_providers
    /\ can_use_provider(provider_limits, provider, now).value
    /\ LET e == try_provider_enter([State EXCEPT !.limits = reset_counters(@, now)], provider)
           r == try_provider_respond(e.S, provider, Raise("Exception", EXC_QUOTA),
                                     "general", now)
       IN  /\ e.kind = "invoke"
           /\ SetState(r.S)
    /\ probe' = [op |-> "attempt", arg |-> provider, value |-> FALSE,
                 before |-> Entry(provider_limits, provider), at |-> now]
    /\ UNCHANGED <<fallback_chain, now, call>>

QTick ==
    /\ \E t \in QuotaClockValues : t > now /\ now' = t
    /\ UNCHANGED <<provider_limits, probe>>
    /\ QuotaUnchanged

\* QuotaManager() is constructed at time 0
InitQuota ==
    /\ provider_limits = QuotaManager_init(0)
    /\ \E configured \in QuotaConfigurations :
          /\ providers = initialize_providers(configured).providers
          /\ fallback_chain = initialize_providers(configured).fallback_chain
    /\ disabled_providers = {}
    /\ now = 0
    /\ call = IdleCall
    /\ probe = NoProbe

NextQuota ==
    \/ \E provider \in QuotaArguments : QCanUse(provider)
    \/ \E provider \in QuotaArguments : QIncrement(provider)
    \/ \E component_type \in QuotaComponents : QBest(component_type)
    \/ \E provider \in QuotaArguments : QSuspended(provider)
    \/ QTick

SpecQuota == InitQuota /\ [][NextQuota]_vars

-----------------------------------------------------------------------------
(* ContentValidator.validate_content called directly on one content and     *)
(* one component; probe holds the arguments, then the returned pair.        *)

ValidatorComponents ==
    {"mental_drivers", "visual_proofs", "anti_objection", "general", "other"}

\* A text of distinct words
VARIED_TEXT == Numbered("palavra", 60)

\* The first n characters of it
Cut(n) == SubSeq(VARIED_TEXT, 1, n)

\* Lengths on either side of each minimum of MIN_CONTENT_LENGTH
BoundaryLengths == {199, 200, 299, 300, 399, 400, 499, 500}

\* Four of GENERIC_PATTERNS, and three of them
FOUR_PATTERNS == "customizado para adequado para personalizado nossa solução"
FOUR_PATTERNS_MIXED_CASE == "CUSTOMIZADO PARA Adequado Para Personalizado NOSSA SOLUÇÃO"
THREE_PATTERNS == "customizado para adequado para PERSONALIZADO"

\* A word of 60 characters
LongWord(ch) == Repeat(ch, "", 60)

\* Ten words of which three are distinct, and ten of which two are
THREE_OF_TEN ==
    LongWord("a") \o " " \o LongWord("b") \o " " \o LongWord("c") \o " "
        \o Repeat(LongWord("a"), " ", 7)
TWO_OF_TEN ==
    LongWord("a") \o " " \o LongWord("b") \o " " \o Repeat(LongWord("a"), " ", 8)

\* The tokens a text is built from by repetition
RepeatTokens == {"a", "ab", "abc", "abcd", "abcde", "Abc", "personalizado"}

\* "token token ... token", 100 times
RepeatedTexts == {Str(Repeat(token, " ", 100)) : token \in RepeatTokens}

ValidatorContents ==
    {None, PyInt(7), Str(""), Str("   ")}
    \cup {Str(Cut(n)) : n \in BoundaryLengths}
    \cup {Str("  " \o Cut(199) \o "  ")}
    \cup {Str(FOUR_PATTERNS),
          Str(FOUR_PATTERNS \o " " \o VARIED_TEXT),
          Str(FOUR_PATTERNS_MIXED_CASE \o " " \o VARIED_TEXT),
          Str(THREE_PATTERNS \o " " \o VARIED_TEXT),
          Str(Repeat(FOUR_PATTERNS, " ", 10))}
    \cup {Str(THREE_OF_TEN), Str(TWO_OF_TEN)}
    \cup RepeatedTexts

ValidatorInputs ==
    {[op |-> "input", content |-> content, component |-> component] :
        content \in ValidatorContents, component \in ValidatorComponents}

\* validate_content(content, component) is called
Validate ==
    /\ probe.op = "input"
    /\ probe' = [op |-> "validate_content", content |-> probe.content,
                 component |-> probe.component,
                 value |-> validate_content(probe.content, probe.component)]
    /\ UNCHANGED <<provider_limits, providers, disabled_providers, fallback_chain,
                   now, call>>

InitValidator ==
    /\ probe \in ValidatorInputs
    /\ provider_limits = QuotaManager_init(0)
    /\ providers = initialize_providers({}).providers
    /\ fallback_chain = initialize_providers({}).fallback_chain
    /\ disabled_providers = {}
    /\ now = 0
    /\ call = IdleCall

NextValidator == Validate

SpecValidator == InitValidator /\ [][NextValidator]_vars

-----------------------------------------------------------------------------
(* Properties of a generate_content call (specification Spec) *)

\* The providers a call has invoked so far
InvokedProviders == {call.invoked[k].p : k \in DOMAIN call.invoked}

\* A provider answer that line 489 drops without registering anything
TooShortAnswer(o) == o.kind = "return" /\ too_short(o.value)

\* A provider answer that passes line 489 and the validator
Accepted(o, component) ==
    o.kind = "return" /\ ~too_short(o.value) /\ validate(o.value, component).ok

\* The providers whose consecutive_failures has reached max_errors
CircuitOpen(provs) ==
    {p \in DOMAIN provs : provs[p].consecutive_failures >= provs[p].max_errors}

ChainIndex(q) == CHOOSE k \in DOMAIN fallback_chain : fallback_chain[k] = q

\* The loop of lines 416-429 of the finished call came to provider q
Reached(q) ==
    \/ call.end = "exhausted"
    \/ call.end \in {"error", "accepted"} /\ ChainIndex(q) < call.i

\* C1: every finished generate_content call, whatever the component type and
\* whatever the providers answered, has returned (not raised) and the value
\* returned is a non-empty text.
C1_NeverRaises ==
    call.pc = "done" =>
        /\ call.result.kind = "return"
        /\ call.result.value.type = "str"
        /\ Len(call.result.value.s) > 0

\* C2: a call in which every provider of the fallback chain was skipped or
\* failed returns a text, and for a component type that has an emergency
\* template that text is the template with its fields substituted.
C2_EmergencyTemplate ==
    (call.pc = "done" /\ call.end = "exhausted") =>
        /\ call.result.kind = "return"
        /\ call.component \in DOMAIN emergency_templates =>
              call.result.value =
                  Str(format(emergency_templates[call.component],
                             dict_get(call.data, "segmento", "negócios"),
                             dict_get(call.data, "produto", "produto/serviço")))

\* C3: a call in which no provider yielded accepted content (every provider
\* skipped or failed, or no provider available at all) returns a text that is
\* not an error message.
C3_NoErrorSurfaced ==
    (call.pc = "done" /\ call.end \in {"exhausted", "unavailable"}) =>
        /\ call.result.kind = "return"
        /\ ~startswith(call.result.value.s, "Erro:")

\* C5: a provider whose consecutive_failures has reached max_errors is in
\* disabled_providers; a call that begins while it is so does not attempt it;
\* and such a call attempts every other provider of the chain that its loop
\* comes to and that is neither disabled nor out of quota.
C5_CircuitBreaking ==
    /\ CircuitOpen(providers) \subseteq disabled_providers
    /\ call.pc # "idle" =>
          \A p \in CircuitOpen(call.pre.providers) : p \notin Range(call.tried)
    /\ (call.pc = "done" /\ CircuitOpen(call.pre.providers) # {}) =>
          LET S1 == check_and_reactivate_providers(call.pre, call.t0)
              lim == reset_counters(call.pre.limits, call.t0)
          IN  \A q \in Range(fallback_chain) \ CircuitOpen(call.pre.providers) :
                  (/\ Reached(q)
                   /\ q \notin S1.disabled
                   /\ lim[q].requests_made < lim[q].daily) => q \in Range(call.tried)

\* A finished call that began with a provider's circuit open, skipped it and
\* attempted another provider
C5_Witness ==
    /\ call.pc = "done"
    /\ \E p \in CircuitOpen(call.pre.providers), q \in Range(call.tried) :
          p # q /\ p \notin Range(call.tried)

\* C6: a provider with quota_exceeded set is in disabled_providers; a call that
\* begins before its reactivate_at does not attempt it; a call that begins at
\* or after its reactivate_at finds it, until the provider answers again, out
\* of disabled_providers with quota_exceeded cleared and consecutive_failures 0.
C6_QuotaSuspension ==
    /\ \A p \in DOMAIN providers :
          providers[p].quota_exceeded => p \in disabled_providers
    /\ call.pc # "idle" =>
          \A p \in DOMAIN call.pre.providers :
              LET before == call.pre.providers[p]
              IN  /\ (before.quota_exceeded /\ call.t0 < before.reactivate_at) =>
                        p \notin Range(call.tried)
                  /\ (/\ before.quota_exceeded
                      /\ call.t0 >= before.reactivate_at
                      /\ p \notin InvokedProviders) =>
                        /\ p \notin disabled_providers
                        /\ ~providers[p].quota_exceeded
                        /\ providers[p].consecutive_failures = 0

\* A call that began at or after the reactivate_at of a suspended provider and
\* attempted that provider
C6_Witness ==
    /\ call.pc # "idle"
    /\ \E p \in DOMAIN call.pre.providers :
          /\ call.pre.providers[p].quota_exceeded
          /\ call.t0 >= call.pre.providers[p].reactivate_at
          /\ p \in Range(call.tried)

\* C7: a finished call whose first provider call returned a too-short answer
\* and in which a later provider call returned an answer the validator accepts
\* has returned exactly that later answer.
C7_Fallback ==
    (/\ call.pc = "done"
     /\ Len(call.invoked) >= 2
     /\ TooShortAnswer(call.invoked[1].outcome)) =>
        \A j \in 2..Len(call.invoked) :
            Accepted(call.invoked[j].outcome, call.component) =>
                call.result = Return(call.invoked[j].outcome.value)

\* The first provider answered with 10 characters, the second with the varied
\* text, and the call returned the varied text
C7_Witness ==
    /\ call.pc = "done"
    /\ Len(call.invoked) = 2
    /\ call.invoked[1].outcome = Return(OUT_SHORT)
    /\ call.invoked[2].outcome = Return(OUT_VARIED)
    /\ call.invoked[1].p # call.invoked[2].p
    /\ call.result = Return(OUT_VARIED)

\* C8: when a provider call of a generate_content call returns an accepted
\* answer, the call is finished with that answer as its value, the provider's
\* success is registered, that provider call is the last one made, and the
\* usage counters have grown by exactly the provider calls made up to it.
C8_FirstAcceptedWins ==
    \A j \in DOMAIN call.invoked :
        Accepted(call.invoked[j].outcome, call.component) =>
            LET p == call.invoked[j].p
                lim == reset_counters(call.pre.limits, call.t0)
            IN  /\ call.pc = "done"
                /\ j = Len(call.invoked)
                /\ Len(call.tried) = Len(call.invoked)
                /\ call.result = Return(call.invoked[j].outcome.value)
                /\ providers[p].consecutive_failures = 0
                /\ providers[p].last_success = call.t0
                /\ p \notin disabled_providers
                /\ \A q \in Providers :
                      provider_limits[q].requests_made =
                          lim[q].requests_made
                              + Cardinality({k \in DOMAIN call.invoked : call.invoked[k].p = q})

\* A call ended by an accepted answer while a provider further down the chain,
\* enabled and with quota left, was not attempted
C8_Witness ==
    /\ call.pc = "done"
    /\ call.end = "accepted"
    /\ \E q \in Range(fallback_chain) \ Range(call.tried) :
          /\ ChainIndex(q) > call.i
          /\ q \notin disabled_providers
          /\ provider_limits[q].requests_made < provider_limits[q].daily

-----------------------------------------------------------------------------
(* Properties of QuotaManager (specification SpecQuota) *)

\* C4: a can_use_provider query on a provider whose requests_made equals its
\* daily limit returns False when less than a day has passed since last_reset,
\* leaving the counter as it is, and otherwise returns True with requests_made
\* reset to 0.
C4_QuotaWindow ==
    (/\ probe.op = "can_use_provider"
     /\ probe.arg \in Providers
     /\ probe.before.requests_made = probe.before.daily) =>
        IF probe.at - probe.before.last_reset < DAY
        THEN /\ probe.value = FALSE
             /\ provider_limits[probe.arg].requests_made = probe.before.daily
        ELSE /\ probe.value = TRUE
             /\ provider_limits[probe.arg].requests_made = 0

\* A query exactly one day after last_reset on an exhausted provider, answered
\* True
C4_Witness ==
    /\ probe.op = "can_use_provider"
    /\ probe.arg \in Providers
    /\ probe.before.requests_made = probe.before.daily
    /\ probe.at - probe.before.last_reset = DAY
    /\ probe.value = TRUE

-----------------------------------------------------------------------------
(* Properties of ContentValidator (specification SpecValidator) *)

\* The rules, numbered in the order empty/non-text, too short, too generic,
\* too repetitive, that a content fails (a content that is not a str is
\* subject to the first rule only)
FailedRules(content, component) ==
    IF content.type # "str" THEN {1}
    ELSE {k \in 1..4 :
            CASE k = 1 -> rule_empty(content)
              [] k = 2 -> rule_short(content, component)
              [] k = 3 -> rule_generic(content)
              [] k = 4 -> rule_repetitive(content)}

\* The rejection reason of rule k
Reason(k, content, component) ==
    CASE k = 1 -> MSG_EMPTY
      [] k = 2 -> msg_short(content, component)
      [] k = 3 -> msg_generic(content)
      [] k = 4 -> MSG_REPETITIVE

\* C9: validate_content rejects a content with the reason of the first rule,
\* in the order empty/non-text, too short, too generic, too repetitive, that
\* the content fails, and accepts a content that fails none.
C9_RuleOrder ==
    probe.op = "validate_content" =>
        LET failed == FailedRules(probe.content, probe.component)
        IN  IF failed = {}
            THEN probe.value = [ok |-> TRUE, msg |-> MSG_VALID]
            ELSE LET first == CHOOSE k \in failed : \A j \in failed : k <= j
                 IN  probe.value =
                         [ok |-> FALSE,
                          msg |-> Reason(first, probe.content, probe.component)]

\* A content that fails both the length rule and the repetition rule and is
\* rejected as too short
C9_Witness ==
    /\ probe.op = "validate_content"
    /\ {2, 4} \subseteq FailedRules(probe.content, probe.component)
    /\ ~probe.value.ok
    /\ probe.value.msg = msg_short(probe.content, probe.component)

\* C10, as stated: a text made of one token repeated 100 times is rejected as
\* too repetitive, for every component.
C10_AlwaysRepetitive ==
    (probe.op = "validate_content" /\ probe.content \in RepeatedTexts) =>
        probe.value = [ok |-> FALSE, msg |-> MSG_REPETITIVE]

\* C10, amended: a text made of one token repeated 100 times is rejected; as
\* too repetitive when its stripped length reaches the minimum length of the
\* component, as too short otherwise.
C10_RepetitiveOrShort ==
    (probe.op = "validate_content" /\ probe.content \in RepeatedTexts) =>
        probe.value =
            [ok |-> FALSE,
             msg |-> IF Len(strip(probe.content.s)) >= min_length(probe.component)
                     THEN MSG_REPETITIVE
                     ELSE msg_short(probe.content, probe.component)]

\* The one-character token repeated 100 times (199 characters), rejected as
\* too short for the component 'general'
C10_Witness ==
    /\ probe.op = "validate_content"
    /\ probe.content = Str(Repeat("a", " ", 100))
    /\ probe.component = "general"
    /\ probe.value = [ok |-> FALSE, msg |-> "Conteúdo muito curto: 199 < 200"]

\* The content of the probe is a str that passes the first two rules
PassesLength ==
    /\ probe.content.type = "str"
    /\ ~rule_empty(probe.content)
    /\ ~rule_short(probe.content, probe.component)

\* The rejection reason is the one of the genericness rule
GenericReason(msg) == startswith(msg, "Muito genérico:")

\* C11, as stated: a text containing 4 or more of GENERIC_PATTERNS (matched on
\* the lowercased text) is rejected as too generic, and a text containing 3 or
\* fewer is not rejected as too generic.
C11_GenericAlways ==
    (probe.op = "validate_content" /\ probe.content.type = "str") =>
        IF generic_count(probe.content) >= 4
        THEN ~probe.value.ok /\ GenericReason(probe.value.msg)
        ELSE ~GenericReason(probe.value.msg)

\* C11, amended: a text that is not empty and whose stripped length reaches the
\* minimum of the component is rejected as too generic when it contains 4 or
\* more of GENERIC_PATTERNS; no text containing 3 or fewer is rejected as too
\* generic.
C11_GenericAfterLength ==
    (probe.op = "validate_content" /\ probe.content.type = "str") =>
        IF generic_count(probe.content) >= 4
        THEN PassesLength =>
                probe.value = [ok |-> FALSE, msg |-> msg_generic(probe.content)]
        ELSE ~GenericReason(probe.value.msg)

\* Four patterns in mixed case followed by distinct words, rejected as too
\* generic
C11_Witness ==
    /\ probe.op = "validate_content"
    /\ probe.content = Str(FOUR_PATTERNS_MIXED_CASE \o " " \o VARIED_TEXT)
    /\ probe.value = [ok |-> FALSE, msg |-> "Muito genérico: 4 padrões encontrados"]

\* C12: a text shorter than the minimum of the component (500 mental_drivers,
\* 300 visual_proofs, 400 anti_objection, 200 general and any other component)
\* is rejected.
C12_ShortRejected ==
    (probe.op = "validate_content" /\ probe.content.type = "str") =>
        LET minimum == CASE probe.component = "mental_drivers" -> 500
                         [] probe.component = "visual_proofs" -> 300
                         [] probe.component = "anti_objection" -> 400
                         [] OTHER -> 200
        IN  Len(probe.content.s) < minimum => ~probe.value.ok

\* A text of 199 distinct-word characters rejected for an unknown component,
\* and for no other rule than the length
C12_Witness ==
    /\ probe.op = "validate_content"
    /\ probe.component = "other"
    /\ probe.content = Str(Cut(199))
    /\ ~probe.value.ok
    /\ FailedRules(probe.content, probe.component) = {2}

-----------------------------------------------------------------------------
(* AIManager.safe_serialize.  The argument is an object graph: a heap maps   *)
(* addresses (the values of id()) to containers and objects, and a reference *)
(* is Ref(address) or a primitive value.  A primitive is never in visited:     *)
(* visited holds the ids of the live ancestors, which are not primitives.    *)
(* A rendered dict is the sequence of its items in insertion order.          *)

PyBool(b) == [type |-> "bool", s |-> "", b |-> b]
PyFloat(repr) == [type |-> "float", s |-> repr]
PyDict(items) == [type |-> "dict", s |-> "", items |-> items]
PyList(items) == [type |-> "list", s |-> "", items |-> items]
Item(k, v) == [k |-> k, v |-> v]

\* line 339
MAX_DEPTH == 15
\* line 370
MAX_ITEMS == 50
\* lines 360, 364, 374, 386, 392: the lengths strings are cut to
MAX_KEY_LENGTH == 100
MAX_ITEM_ERROR_LENGTH == 50
MAX_REPR_LENGTH == 500
MAX_ERROR_LENGTH == 100

\* s[:n]
prefix(s, n) == IF Len(s) <= n THEN s ELSE SubSeq(s, 1, n)

\* d[key] = value on a rendered dict
dict_set(items, key, value) ==
    IF \E i \in DOMAIN items : items[i].k = key
    THEN [i \in DOMAIN items |-> IF items[i].k = key THEN Item(key, value) ELSE items[i]]
    ELSE Append(items, Item(key, value))

Ref(addr) == [type |-> "ref", s |-> "", addr |-> addr]
IsAddress(ref) == ref.type = "ref"

\* type(obj).__name__
type_name(heap, obj) ==
    IF ~IsAddress(obj) THEN obj.type
    ELSE IF heap[obj.addr].kind \in {"dict", "list", "tuple"} THEN heap[obj.addr].kind
    ELSE heap[obj.addr].cls

\* line 340
MaxDepthMarker(depth) ==
    PyDict(<<Item("__max_depth__", Str("Depth limit reached at " \o ToStr(depth)))>>)

\* line 345
CircularMarker(heap, obj) ==
    PyDict(<<Item("__circular_ref__", Str(type_name(heap, obj) \o "_" \o ToStr(obj.addr)))>>)

\* line 382
ObjectMarker(heap, obj) == PyDict(<<Item("__object__", Str(type_name(heap, obj)))>>)

\* line 387
StringReprMarker(heap, obj, text) ==
    PyDict(<<Item("__string_repr__", Str(prefix(text, MAX_REPR_LENGTH))),
             Item("__type__", Str(type_name(heap, obj)))>>)

\* line 389
UnserializableMarker(heap, obj) ==
    PyDict(<<Item("__unserializable__", Str(type_name(heap, obj)))>>)

\* line 392
SerializationErrorMarker(e) ==
    PyDict(<<Item("__serialization_error__", Str(prefix(e.value.s, MAX_ERROR_LENGTH)))>>)

\* line 344 with the test dropped
is_circular_never(obj, visited) == FALSE

\* line 344: id(obj) in visited
is_circular(obj, visited) == IsAddress(obj) /\ obj.addr \in visited

\* line 348 marking the containers the object directly holds as well
mark_visited_with_held(heap, obj, visited) ==
    IF ~IsAddress(obj) THEN visited
    ELSE LET o == heap[obj.addr]
             refs == IF o.kind = "dict" THEN {o.items[i].ref : i \in DOMAIN o.items}
                     ELSE IF o.kind \in {"list", "tuple"} THEN Range(o.items)
                     ELSE {}
         IN  visited \cup {obj.addr} \cup {r.addr : r \in {x \in refs : IsAddress(x)}}

\* lines 348, 362, 372, 380: visited.add(obj_id), and the copy handed to a child
mark_visited(heap, obj, visited) ==
    IF IsAddress(obj) THEN visited \cup {obj.addr} ELSE visited

\* line 360: str(key)[:100], or key[:100] for a str key; str() of a key may raise
safe_key(key) ==
    CASE key.type = "str" -> Return(Str(prefix(key.s, MAX_KEY_LENGTH)))
      [] key.type = "int" -> Return(Str(prefix(ToStr(key.n), MAX_KEY_LENGTH)))
      [] key.type = "NoneType" -> Return(Str("None"))
      [] OTHER -> key.str

\* isinstance(e, Exception): what except Exception catches
is_Exception(e) == e.exc \notin {"KeyboardInterrupt", "SystemExit", "GeneratorExit"}

\* str(e): the message of the exception, or what the __str__ of its class
\* raises
str_exc(e) ==
    IF e.exc = "Unprintable" THEN Raise("ValueError", "unprintable") ELSE Return(e.value)

\* lines 391-392: except Exception as e: return {..: str(e)[:100]}; what str(e)
\* raises leaves safe_serialize, as does what is not an Exception
guard(r) ==
    IF r.kind = "raise" /\ is_Exception(r)
    THEN IF str_exc(r).kind = "raise" THEN str_exc(r)
         ELSE Return(SerializationErrorMarker(r))
    ELSE r

\* An activation of safe_serialize that waits for a nested call: the object,
\* its own visited set, its depth, and for a dict, a list or a tuple the item
\* the loop is at and the result built so far
Frame(obj, visited, depth, i, result) ==
    [obj |-> obj, visited |-> visited, depth |-> depth, i |-> i, result |-> result]

\* self.safe_serialize(obj, visited, depth) about to be entered
Call(obj, visited, depth) == [obj |-> obj, visited |-> visited, depth |-> depth]

NoCall == Call(None, {}, 0)

\* The recursion of safe_serialize in progress: the activations that wait for
\* a nested call, innermost last, and what happens next: a call is entered
\* (ctl = "call", arg), the loop of the innermost activation goes on
\* (ctl = "loop"), or a call hands its outcome to its caller (ctl = "return",
\* value)
Serializing(p, stack, ctl, arg, value) ==
    [op |-> "serializing", heap |-> p.heap, root |-> p.root,
     stack |-> stack, ctl |-> ctl, arg |-> arg, value |-> value]

\* The activation that is entered returns or raises r (lines 391-392 apply)
returning(p, stack, r) == Serializing(p, stack, "return", NoCall, guard(r))

\* The innermost waiting activation, and the ones around it
Top(stack) == stack[Len(stack)]
Pop(stack) == SubSeq(stack, 1, Len(stack) - 1)

\* lines 339-353, 356-357, 367-368, 377-389: safe_serialize is entered; it
\* returns at once, starts the loop over a dict, a list or a tuple, or calls
\* itself on obj.__dict__
safe_serialize_enter(p) ==
    LET heap == p.heap
        obj == p.arg.obj
        visited == p.arg.visited
        depth == p.arg.depth
    IN  IF depth > MAX_DEPTH
        THEN Serializing(p, p.stack, "return", NoCall, Return(MaxDepthMarker(depth)))
        ELSE IF is_circular(obj, visited)
        THEN Serializing(p, p.stack, "return", NoCall, Return(CircularMarker(heap, obj)))
        ELSE LET seen == mark_visited(heap, obj, visited)
             IN  IF ~IsAddress(obj) THEN returning(p, p.stack, Return(obj))
                 ELSE LET o == heap[obj.addr]
                      IN  IF o.kind \in {"dict", "list", "tuple"}
                          THEN Serializing(p, Append(p.stack, Frame(obj, seen, depth, 1, <<>>)),
                                           "loop", NoCall, None)
                          ELSE IF o.kind = "object"
                          THEN \* line 378: hasattr(obj, '__dict__') lets through
                               \* what the attribute raises, AttributeError apart
                               IF o.fields.kind = "raise"
                               THEN returning(p, p.stack, o.fields)
                               ELSE Serializing(p, Append(p.stack, Frame(obj, seen, depth, 1, <<>>)),
                                                "call", Call(o.fields.value, seen, depth + 1), None)
                          ELSE IF o.str.kind = "raise"
                          THEN returning(p, p.stack, Return(UnserializableMarker(heap, obj)))
                          ELSE returning(p, p.stack,
                                         Return(StringReprMarker(heap, obj, o.str.value.s)))

\* lines 358-362, 365 and 370-372, 375: the loop of the innermost activation
\* takes its next item and calls safe_serialize on it with a copy of visited,
\* or ends and returns result; str() of a key is outside the try of the item
\* (line 360)
safe_serialize_loop(p) ==
    LET f == Top(p.stack)
        o == p.heap[f.obj.addr]
    IN  IF o.kind = "dict"
        THEN IF f.i > Len(o.items)
             THEN returning(p, Pop(p.stack), Return(PyDict(f.result)))
             ELSE IF safe_key(o.items[f.i].key).kind = "raise"
             THEN returning(p, Pop(p.stack), safe_key(o.items[f.i].key))
             ELSE Serializing(p, p.stack, "call",
                              Call(o.items[f.i].ref, f.visited, f.depth + 1), None)
        ELSE IF f.i > Len(o.items) \/ f.i > MAX_ITEMS
             THEN returning(p, Pop(p.stack), Return(PyList(f.result)))
             ELSE Serializing(p, p.stack, "call",
                              Call(o.items[f.i], f.visited, f.depth + 1), None)

\* lines 362-364, 372-374, 380-382: a nested call hands its outcome r to the
\* innermost waiting activation: the loop stores it and goes on, an object
\* returns it
safe_serialize_resume(p) ==
    LET f == Top(p.stack)
        o == p.heap[f.obj.addr]
        r == p.value
    IN  IF o.kind \in {"dict", "list", "tuple"} /\ r.kind = "raise" /\ ~is_Exception(r)
        THEN \* lines 363, 373: except Exception does not catch it
             returning(p, Pop(p.stack), r)
        ELSE IF o.kind \in {"dict", "list", "tuple"} /\ r.kind = "raise"
                /\ str_exc(r).kind = "raise"
        THEN \* lines 364, 374: str(e) raises inside the handler
             returning(p, Pop(p.stack), str_exc(r))
        ELSE IF o.kind = "dict"
        THEN LET value == IF r.kind = "raise"
                          THEN Str("<Error serializing: "
                                   \o prefix(str_exc(r).value.s, MAX_ITEM_ERROR_LENGTH) \o ">")
                          ELSE r.value
                 result == dict_set(f.result, safe_key(o.items[f.i].key).value.s, value)
             IN  Serializing(p, Append(Pop(p.stack),
                                       Frame(f.obj, f.visited, f.depth, f.i + 1, result)),
                             "loop", NoCall, None)
        ELSE IF o.kind \in {"list", "tuple"}
        THEN LET value == IF r.kind = "raise"
                          THEN Str("<Error at index " \o ToStr(f.i - 1) \o ": "
                                   \o prefix(str_exc(r).value.s, MAX_ITEM_ERROR_LENGTH) \o ">")
                          ELSE r.value
             IN  Serializing(p, Append(Pop(p.stack),
                                       Frame(f.obj, f.visited, f.depth, f.i + 1,
                                             Append(f.result, value))),
                             "loop", NoCall, None)
        ELSE \* line 381: a bare except
             returning(p, Pop(p.stack),
                       IF r.kind = "raise" THEN Return(ObjectMarker(p.heap, f.obj)) ELSE r)

-----------------------------------------------------------------------------
(* safe_serialize called on one object graph; probe holds the heap and the   *)
(* root, then the value returned (or the exception raised).                  *)

\* The longest chain of nested containers
CHAIN_MAX == 18

DictOf(items) == [kind |-> "dict", items |-> items]
ListOf(items) == [kind |-> "list", items |-> items]
TupleOf(items) == [kind |-> "tuple", items |-> items]
Entry1(key, ref) == [key |-> key, ref |-> ref]
ObjectOf(cls, fields) == [kind |-> "object", cls |-> cls, fields |-> fields]
OpaqueOf(cls, str) == [kind |-> "opaque", cls |-> cls, str |-> str]

\* A key whose __str__ raises
BadKey == [type |-> "object", s |-> "", str |-> Raise("ValueError", "bad key")]

\* A key whose __str__ raises an exception whose own __str__ raises, and a key
\* whose __str__ raises what is not an Exception
UnprintableKey == [type |-> "object", s |-> "", str |-> Raise("Unprintable", "")]
InterruptingKey == [type |-> "object", s |-> "", str |-> Raise("KeyboardInterrupt", "")]

\* A container of the given kind holding one reference
Link(kind, k, ref) ==
    CASE kind = "dict" -> DictOf(<<Entry1(Str("next"), ref)>>)
      [] kind = "list" -> ListOf(<<ref>>)
      [] kind = "mixed" -> IF k % 2 = 1 THEN DictOf(<<Entry1(Str("next"), ref)>>)
                           ELSE TupleOf(<<ref>>)

\* n nested containers at addresses 1..n, the innermost holding last
Chain(kind, n, last) ==
    [k \in 1..n |-> Link(kind, k, IF k < n THEN Ref(k + 1) ELSE last)]

\* n nested lists, the innermost holding an object with the field a = 1
ChainWithObject(n) ==
    [k \in 1..(n + 2) |->
        IF k <= n THEN ListOf(<<Ref(k + 1)>>)
        ELSE IF k = n + 1 THEN ObjectOf("Namespace", Return(Ref(n + 2)))
        ELSE DictOf(<<Entry1(Str("a"), PyInt(1))>>)]

ChainInputs ==
    {[heap |-> Chain(kind, n, last), root |-> Ref(1)] :
        kind \in {"dict", "list", "mixed"}, n \in 1..CHAIN_MAX, last \in {Ref(1), PyInt(0)}}
    \cup {[heap |-> ChainWithObject(n), root |-> Ref(1)] : n \in 1..CHAIN_MAX}

\* Lists around the cap of 50 items
ListLengths == {0, 1, 49, 50, 51, 60}

ListInputs ==
    {[heap |-> <<ListOf([i \in 1..n |-> PyInt(i)])>>, root |-> Ref(1)] : n \in ListLengths}
    \cup {[heap |-> <<TupleOf([i \in 1..51 |-> PyInt(i)])>>, root |-> Ref(1)]}

\* A str longer than every length the code cuts strings to
LONG_STRING == Repeat("z", "", 600)

Primitives ==
    {None, PyBool(TRUE), PyBool(FALSE), PyInt(0), PyInt(42), PyFloat("1.5"),
     Str(""), Str("abc"), Str(LONG_STRING)}

PrimitiveInputs ==
    {[heap |-> <<>>, root |-> v] : v \in Primitives}
    \cup {[heap |-> <<ListOf(<<v>>)>>, root |-> Ref(1)] : v \in Primitives}

\* Keys, string representations and field mappings that raise or are cut
FailureInputs ==
    {[heap |-> <<DictOf(<<Entry1(Str("a"), PyInt(1)), Entry1(BadKey, PyInt(2))>>)>>,
      root |-> Ref(1)],
     [heap |-> <<ListOf(<<Ref(2), PyInt(3)>>),
                 DictOf(<<Entry1(BadKey, PyInt(2))>>)>>, root |-> Ref(1)],
     [heap |-> <<ListOf(<<Ref(2), Ref(3), Ref(4)>>),
                 OpaqueOf("Handle", Raise("ValueError", "bad str")),
                 OpaqueOf("set", Return(Str("{1, 2}"))),
                 OpaqueOf("bytes", Return(Str(LONG_STRING)))>>, root |-> Ref(1)],
     [heap |-> <<ListOf(<<Ref(2)>>),
                 ObjectOf("Lazy", Raise("ValueError", "no fields"))>>, root |-> Ref(1)],
     [heap |-> <<DictOf(<<Entry1(UnprintableKey, PyInt(1))>>)>>, root |-> Ref(1)],
     [heap |-> <<DictOf(<<Entry1(InterruptingKey, PyInt(1))>>)>>, root |-> Ref(1)],
     [heap |-> <<ObjectOf("Lazy", Raise("Unprintable", ""))>>, root |-> Ref(1)],
     [heap |-> <<ListOf(<<PyInt(1), Ref(2)>>),
                 DictOf(<<Entry1(UnprintableKey, PyInt(1))>>)>>, root |-> Ref(1)],
     [heap |-> <<DictOf(<<Entry1(Str("a"), Ref(2))>>),
                 ListOf(<<Ref(3)>>),
                 DictOf(<<Entry1(InterruptingKey, PyInt(1))>>)>>, root |-> Ref(1)],
     [heap |-> <<ObjectOf("Holder", Return(Ref(2))),
                 DictOf(<<Entry1(InterruptingKey, PyInt(1))>>)>>, root |-> Ref(1)],
     [heap |-> <<DictOf(<<Entry1(PyInt(1), Str("a")), Entry1(Str("1"), Str("b")),
                          Entry1(Str(Repeat("k", "", 120)), PyInt(0)),
                          Entry1(None, PyInt(5))>>)>>, root |-> Ref(1)]}

\* An object referenced from sibling branches, and objects that refer back to
\* an ancestor
SharingInputs ==
    {[heap |-> <<DictOf(<<Entry1(Str("x"), Ref(2)), Entry1(Str("y"), Ref(2)), Entry1(Str("l"), Ref(3))>>),
                 DictOf(<<Entry1(Str("v"), PyInt(1))>>),
                 ListOf(<<Ref(2), Ref(2)>>)>>, root |-> Ref(1)],
     [heap |-> <<DictOf(<<Entry1(Str("x"), Ref(2)), Entry1(Str("y"), Ref(2))>>),
                 ListOf(<<Ref(1), Ref(3)>>),
                 DictOf(<<Entry1(Str("v"), PyInt(1))>>)>>, root |-> Ref(1)],
     [heap |-> <<ObjectOf("Node", Return(Ref(2))),
                 DictOf(<<Entry1(Str("me"), Ref(1)), Entry1(Str("peer"), Ref(3))>>),
                 ObjectOf("Node", Return(Ref(4))),
                 DictOf(<<Entry1(Str("back"), Ref(1)), Entry1(Str("n"), PyInt(0))>>)>>,
      root |-> Ref(1)],
     [heap |-> <<DictOf(<<Entry1(Str("self"), Ref(1))>>)>>, root |-> Ref(1)]}

SerializerInputs ==
    {[op |-> "input", heap |-> x.heap, root |-> x.root] :
        x \in ChainInputs \cup ListInputs \cup PrimitiveInputs
              \cup FailureInputs \cup SharingInputs}

SerializerUnchanged ==
    UNCHANGED <<provider_limits, providers, disabled_providers, fallback_chain, now, call>>

\* safe_serialize(obj) is called: visited = set(), depth = 0 (lines 333-336)
Serialize ==
    /\ probe.op = "input"
    /\ probe' = Serializing(probe, <<>>, "call", Call(probe.root, {}, 0), None)
    /\ SerializerUnchanged

\* A call of safe_serialize is entered
SerializeEnter ==
    /\ probe.op = "serializing"
    /\ probe.ctl = "call"
    /\ probe' = safe_serialize_enter(probe)
    /\ SerializerUnchanged

\* The loop over a dict, a list or a tuple takes its next step
SerializeLoop ==
    /\ probe.op = "serializing"
    /\ probe.ctl = "loop"
    /\ probe' = safe_serialize_loop(probe)
    /\ SerializerUnchanged

\* A nested call returns to the activation that made it
SerializeResume ==
    /\ probe.op = "serializing"
    /\ probe.ctl = "return"
    /\ probe.stack # <<>>
    /\ probe' = safe_serialize_resume(probe)
    /\ SerializerUnchanged

\* The outermost call returns (or raises) to the caller of safe_serialize
SerializeReturn ==
    /\ probe.op = "serializing"
    /\ probe.ctl = "return"
    /\ probe.stack = <<>>
    /\ probe' = [op |-> "safe_serialize", heap |-> probe.heap, root |-> probe.root,
                 value |-> probe.value]
    /\ SerializerUnchanged

InitSerializer ==
    /\ probe \in SerializerInputs
    /\ provider_limits = QuotaManager_init(0)
    /\ providers = initialize_providers({}).providers
    /\ fallback_chain = initialize_providers({}).fallback_chain
    /\ disabled_providers = {}
    /\ now = 0
    /\ call = IdleCall

NextSerializer ==
    \/ Serialize
    \/ SerializeEnter
    \/ SerializeLoop
    \/ SerializeResume
    \/ SerializeReturn

SpecSerializer == InitSerializer /\ [][NextSerializer]_vars

-----------------------------------------------------------------------------
(* Properties of safe_serialize (specification SpecSerializer).  A position  *)
(* of the object graph is the path of selectors leading to it from the root: *)
(* a rendered key, a list index, or the step from an object to its field     *)
(* mapping (which is rendered in place of the object).                        *)

ByKey(key) == [via |-> "key", key |-> key, index |-> 0]
ByIndex(i) == [via |-> "index", key |-> "", index |-> i]
ByFields == [via |-> "fields", key |-> "", index |-> 0]

MISSING == [type |-> "missing", s |-> ""]

\* What an object directly holds, with the selector of each
Children(heap, ref) ==
    LET o == heap[ref.addr]
    IN  CASE o.kind = "dict" ->
               {[sel |-> ByKey(safe_key(o.items[i].key).value.s), ref |-> o.items[i].ref] :
                    i \in {j \in DOMAIN o.items :
                             /\ safe_key(o.items[j].key).kind = "return"
                             /\ \A k \in DOMAIN o.items :
                                   (k > j /\ safe_key(o.items[k].key).kind = "return") =>
                                       safe_key(o.items[k].key) # safe_key(o.items[j].key)}}
          [] o.kind \in {"list", "tuple"} ->
               {[sel |-> ByIndex(i), ref |-> o.items[i]] : i \in DOMAIN o.items}
          [] o.kind = "object" ->
               IF o.fields.kind = "return"
               THEN {[sel |-> ByFields, ref |-> o.fields.value]} ELSE {}
          [] OTHER -> {}

\* A position of the graph: the selectors that lead to it, the reference found
\* there, the objects on the way to it, and whether the reference is one of
\* them
Node(path, ref, ancestors) ==
    [path |-> path, ref |-> ref, ancestors |-> ancestors,
     recurs |-> IsAddress(ref) /\ ref.addr \in ancestors]

\* The positions directly below a position; a position where an ancestor
\* recurs has none
Below(heap, n) ==
    IF n.recurs \/ ~IsAddress(n.ref) THEN {}
    ELSE {Node(Append(n.path, c.sel), c.ref, n.ancestors \cup {n.ref.addr}) :
             c \in Children(heap, n.ref)}

\* The positions found so far together with those at and below the frontier
RECURSIVE Walk(_, _, _)
Walk(heap, frontier, found) ==
    IF frontier \subseteq found THEN found
    ELSE Walk(heap, UNION {Below(heap, n) : n \in frontier}, found \cup frontier)

\* The positions of the graph at and below ref
Nodes(heap, ref) == Walk(heap, {Node(<<>>, ref, {})}, {})

\* The positions of the graph the probe was called on
ProbeNodes == Nodes(probe.heap, probe.root)

\* The rendered value one selector below a rendered value
Step(v, sel) ==
    CASE sel.via = "fields" -> v
      [] sel.via = "key" ->
            IF v.type = "dict" /\ \E i \in DOMAIN v.items : v.items[i].k = sel.key
            THEN v.items[CHOOSE i \in DOMAIN v.items : v.items[i].k = sel.key].v
            ELSE MISSING
      [] sel.via = "index" ->
            IF v.type = "list" /\ sel.index \in DOMAIN v.items
            THEN v.items[sel.index] ELSE MISSING

\* The rendered value at a position; nothing is below a missing value
RECURSIVE At(_, _)
At(v, path) ==
    IF path = <<>> \/ v = MISSING THEN v ELSE At(Step(v, Head(path)), Tail(path))

IsMarker(v, key) == v.type = "dict" /\ Len(v.items) = 1 /\ v.items[1].k = key

\* The probe has returned a value
Rendered == probe.op = "safe_serialize" /\ probe.value.kind = "return"

C14_TruncationMarker ==
    (/\ Rendered
     /\ IsAddress(probe.root)
     /\ probe.heap[probe.root.addr].kind \in {"list", "tuple"}
     /\ Len(probe.heap[probe.root.addr].items) > MAX_ITEMS) =>
        LET items == probe.heap[probe.root.addr].items
            out == probe.value.value
        IN  /\ out.type = "list"
            /\ Len(out.items) = MAX_ITEMS + 1
            /\ \A i \in 1..MAX_ITEMS :
                  ~IsAddress(items[i]) => out.items[i] = items[i]

\* C15: every position of depth 16 holds the depth-limit marker, nothing is
\* rendered below it, and no position of depth at most 15 holds the
\* depth-limit marker.
C15_DepthLimit ==
    Rendered =>
        \A n \in ProbeNodes :
            (\A i \in DOMAIN n.path : n.path[i].index <= MAX_ITEMS) =>
                LET v == At(probe.value.value, n.path)
                IN  CASE Len(n.path) <= MAX_DEPTH -> ~IsMarker(v, "__max_depth__")
                      [] Len(n.path) = MAX_DEPTH + 1 -> v = MaxDepthMarker(MAX_DEPTH + 1)
                      [] OTHER -> v = MISSING

\* C16: a bool, a number or None is returned unchanged, and a str is returned
\* cut to at most 500 characters (the longest cut the method makes).
C16_Primitives ==
    (Rendered /\ ~IsAddress(probe.root)) =>
        IF probe.root.type = "str"
        THEN /\ probe.value.value.type = "str"
             /\ Len(probe.value.value.s) <= MAX_REPR_LENGTH
        ELSE probe.value.value = probe.root

\* C17: safe_serialize returns a value for every graph; a mapping with a key
\* whose str() raises, an object whose field mapping raises and an object
\* whose str() raises are each rendered as an error marker at their position.
C17_NeverRaises ==
    probe.op = "safe_serialize" =>
        /\ probe.value.kind = "return"
        /\ \A n \in ProbeNodes :
              (IsAddress(n.ref) /\ ~n.recurs /\ Len(n.path) <= MAX_DEPTH) =>
                  LET o == probe.heap[n.ref.addr]
                      v == At(probe.value.value, n.path)
                  IN  CASE o.kind = "dict"
                             /\ \E i \in DOMAIN o.items : safe_key(o.items[i].key).kind = "raise"
                               -> IsMarker(v, "__serialization_error__")
                        [] o.kind = "object" /\ o.fields.kind = "raise"
                               -> IsMarker(v, "__serialization_error__")
                        [] o.kind = "opaque" /\ o.str.kind = "raise"
                               -> IsMarker(v, "__unserializable__")
                        [] OTHER -> TRUE

\* C18: within the depth limit, a position holds a circular-reference marker
\* exactly when the object there is one of its own ancestors; an object found
\* at two positions with the same ancestors at the same depth is rendered the
\* same at both.
C18_SharedNotCircular ==
    Rendered =>
        /\ \A n \in ProbeNodes :
              (Len(n.path) <= MAX_DEPTH /\ At(probe.value.value, n.path) # MISSING) =>
                  (IsMarker(At(probe.value.value, n.path), "__circular_ref__") <=> n.recurs)
        /\ \A n1, n2 \in ProbeNodes :
              (/\ n1.ref = n2.ref
               /\ IsAddress(n1.ref)
               /\ n1.path # n2.path
               /\ ~n1.recurs /\ ~n2.recurs
               /\ Len(n1.path) = Len(n2.path)
               /\ Len(n1.path) <= MAX_DEPTH) =>
                  /\ ~IsMarker(At(probe.value.value, n1.path), "__circular_ref__")
                  /\ ~IsMarker(At(probe.value.value, n2.path), "__circular_ref__")
                  /\ n1.ancestors = n2.ancestors =>
                        At(probe.value.value, n1.path) = At(probe.value.value, n2.path)

\* A mapping referenced under two keys of the root and twice in a list of the
\* root, rendered in full at the two keys
C18_Witness ==
    /\ Rendered
    /\ \E n1, n2 \in ProbeNodes :
          /\ n1.ref = n2.ref
          /\ n1.path # n2.path
          /\ Len(n1.path) = 1 /\ Len(n2.path) = 1
          /\ At(probe.value.value, n1.path) = PyDict(<<Item("v", PyInt(1))>>)
          /\ At(probe.value.value, n2.path) = PyDict(<<Item("v", PyInt(1))>>)

-----------------------------------------------------------------------------
(* Two generate_content calls in flight on the one AIManager of the module  *)
(* (line 605), each in a thread of its own.  The attributes of the manager  *)
(* are shared; probe holds what is local to each call.  A call runs from    *)
(* its entry to line 448 in one step, reads and writes requests_made in two *)
(* (the += of line 69 is a read followed by a write), and runs from the     *)
(* answer of its provider to the next line 448, or to its end, in one step. *)
(* A thread whose call has ended may make another call.                     *)

Threads == {"t1", "t2"}

\* The number of calls a thread makes
MAX_CALLS == 2

\* The local variables of a call: where it stands, its component type,
\* best_provider, the chain index and the provider of the attempt in progress,
\* the value of requests_made it has read, the providers whose counter the
\* thread has written (in this call and the calls before it), what the call
\* returned or raised, and the number of calls the thread has begun
NewRequest ==
    [pc |-> "start", component |-> "general", best |-> NONE, i |-> 0, cur |-> NONE,
     loaded |-> 0, tried |-> <<>>, result |-> NoResult, calls |-> 0]

\* The manager as such a step leaves it, the increment of line 448 included
before_increment_done(step) == step.S


\* The manager as a step that ends at a provider call leaves it before line 448
before_increment(step) == [step.S EXCEPT !.limits[step.p].requests_made = @ - 1]

\* The call and the manager after a step that ended at line 448, at a raise or
\* at exhaustion
request_after(rq, step) ==
    CASE step.kind = "invoke" ->
            [rq |-> [rq EXCEPT !.pc = "load", !.i = step.i, !.cur = step.p],
             S |-> before_increment(step)]
      [] step.kind = "raise" ->
            [rq |-> [rq EXCEPT !.pc = "done", !.i = step.i, !.cur = step.p,
                               !.result = Raise("KeyError", "'model'")],
             S |-> step.S]
      [] step.kind = "exhausted" ->
            [rq |-> [rq EXCEPT !.pc = "done", !.i = step.i, !.cur = NONE,
                               !.result = exhausted_result(rq.component, EmptyDict)],
             S |-> step.S]

ConcurrentUnchanged == UNCHANGED <<fallback_chain, now, call>>

\* A thread calls generate_content(prompt, component_type=...)
CBegin(th, component_type) ==
    /\ \/ probe.req[th].pc = "start"
       \/ probe.req[th].pc = "done" /\ probe.req[th].calls < MAX_CALLS
    /\ LET rq == [NewRequest EXCEPT !.component = component_type,
                                    !.tried = probe.req[th].tried,
                                    !.calls = probe.req[th].calls + 1]
       IN  IF ~\E p \in DOMAIN providers : providers[p].available
           THEN /\ probe' = [probe EXCEPT !.req[th] =
                               [rq EXCEPT !.pc = "done",
                                          !.result = Return(Str("Erro: Nenhum provedor de IA disponível."))]]
                /\ UNCHANGED <<provider_limits, providers, disabled_providers>>
           ELSE LET a == analysis_begin(State, fallback_chain, component_type, now)
                    after == request_after([rq EXCEPT !.best = a.best], a.step)
                IN  /\ probe' = [probe EXCEPT !.req[th] = after.rq]
                    /\ SetState(after.S)
    /\ ConcurrentUnchanged

\* increment_usage, line 69: the thread reads requests_made
CLoad(th) ==
    /\ probe.req[th].pc = "load"
    /\ probe' = [probe EXCEPT !.req[th].pc = "store",
                              !.req[th].loaded = provider_limits[probe.req[th].cur].requests_made]
    /\ UNCHANGED <<provider_limits, providers, disabled_providers>>
    /\ ConcurrentUnchanged

\* increment_usage, line 69: the thread writes requests_made, then calls the
\* provider
CStore(th) ==
    /\ probe.req[th].pc = "store"
    /\ provider_limits' = [provider_limits EXCEPT
                              ![probe.req[th].cur].requests_made = probe.req[th].loaded + 1]
    /\ probe' = [probe EXCEPT !.req[th].pc = "invoking",
                              !.req[th].tried = Append(@, probe.req[th].cur)]
    /\ UNCHANGED <<providers, disabled_providers>>
    /\ ConcurrentUnchanged

\* The provider call of a thread returns or raises
CRespond(th, outcome) ==
    /\ probe.req[th].pc = "invoking"
    /\ LET rq == probe.req[th]
           r == try_provider_respond(State, rq.cur, outcome, rq.component, now)
       IN  IF truthy(r.value)
           THEN /\ probe' = [probe EXCEPT !.req[th] =
                               [rq EXCEPT !.pc = "done",
                                          !.result = content_tail(r.value, rq.component)]]
                /\ SetState(r.S)
           ELSE LET step == fallback_from(r.S, fallback_chain, rq.i + 1, rq.best, now)
                    after == request_after(rq, step)
                IN  /\ probe' = [probe EXCEPT !.req[th] = after.rq]
                    /\ SetState(after.S)
    /\ ConcurrentUnchanged

\* The component type of concurrent calls: it plays no part in the quota
\* counters or in the circuit state
ConcurrentComponents == {"visual_proofs"}

\* What the provider calls of concurrent calls answer
ConcurrentOutcomes == {Return(OUT_VARIED), Raise("Exception", EXC_QUOTA)}

InitConcurrent ==
    \E configured \in Configurations :
        LET m == initialize_providers(configured)
        IN  /\ provider_limits = QuotaManager_init(0)
            /\ providers = m.providers
            /\ fallback_chain = m.fallback_chain
            /\ disabled_providers = {}
            /\ now = 0
            /\ call = IdleCall
            /\ probe = [op |-> "concurrent", req |-> [th \in Threads |-> NewRequest]]

NextConcurrent ==
    \/ \E th \in Threads, component_type \in ConcurrentComponents : CBegin(th, component_type)
    \/ \E th \in Threads : CLoad(th)
    \/ \E th \in Threads : CStore(th)
    \/ \E th \in Threads, outcome \in ConcurrentOutcomes : CRespond(th, outcome)

SpecConcurrent == InitConcurrent /\ [][NextConcurrent]_vars

-----------------------------------------------------------------------------
(* Claims about concurrent calls *)

\* The number of times the provider occurs in a sequence of providers
Occurrences(seq, p) == Cardinality({k \in DOMAIN seq : seq[k] = p})

\* The number of attempts the threads have made on a provider
Attempts(p) ==
    LET n(th) == Occurrences(probe.req[th].tried, p)
    IN  n("t1") + n("t2")

\* C19: with two calls in flight, the state is one that calls taking their
\* selection, quota increment and registration one at a time can leave: every
\* attempt on a provider is counted in its requests_made, and no provider is
\* attempted beyond its daily limit.
C19_Atomic ==
    probe.op = "concurrent" =>
        \A p \in DOMAIN provider_limits :
            /\ provider_limits[p].requests_made = Attempts(p)
            /\ Attempts(p) <= provider_limits[p].daily

-----------------------------------------------------------------------------
(* Claims about the providers a call attempts *)

\* C20: whenever a provider call is in progress, the provider attempted is a
\* configured available provider, is not in disabled_providers, and had
\* requests_made below its daily limit, in the current day of its counter,
\* when its counter was incremented for the attempt.
C20_AttemptedOnlyIfUsable ==
    call.pc = "invoking" =>
        /\ call.cur \in DOMAIN providers
        /\ providers[call.cur].available
        /\ call.cur \notin disabled_providers
        /\ now - provider_limits[call.cur].last_reset < DAY
        /\ provider_limits[call.cur].requests_made >= 1
        /\ provider_limits[call.cur].requests_made - 1 < provider_limits[call.cur].daily

\* A provider call in progress in a call that passed over a provider of the
\* chain whose quota was used up
C20_Witness ==
    /\ call.pc = "invoking"
    /\ \E k \in 1..(call.i - 1) :
          /\ fallback_chain[k] \notin disabled_providers
          /\ fallback_chain[k] \notin Range(call.tried)
          /\ provider_limits[fallback_chain[k]].requests_made
                >= provider_limits[fallback_chain[k]].daily

-----------------------------------------------------------------------------
(* Claims about the fallback chain *)

\* The attempts of the call made from the loop of lines 416-429
LoopAttempts == SelectSeq(call.tried, LAMBDA q : q # call.best)

\* C21: the fallback chain holds exactly the configured available providers,
\* each once, in ascending order of their priority attribute, and the loop of
\* a call attempts providers in ascending order of priority.
C21_ChainByPriority ==
    /\ Range(fallback_chain) = {p \in DOMAIN providers : providers[p].available}
    /\ \A i, j \in DOMAIN fallback_chain :
          i < j => providers[fallback_chain[i]].priority
                       < providers[fallback_chain[j]].priority
    /\ \A i, j \in DOMAIN LoopAttempts :
          i < j => providers[LoopAttempts[i]].priority
                       < providers[LoopAttempts[j]].priority

-----------------------------------------------------------------------------
(* get_provider_status read between the steps of generate_content calls.    *)
(* probe holds the mapping returned and the state the call began in, until  *)
(* the caller has rendered it.                                               *)

\* get_provider_status with the remaining quota taken to be the daily limit
get_provider_status_full_quota(S) ==
    [name \in DOMAIN S.providers |->
        [available |-> S.providers[name].available,
         priority |-> S.providers[name].priority,
         error_count |-> S.providers[name].error_count,
         consecutive_failures |-> S.providers[name].consecutive_failures,
         disabled |-> name \in S.disabled,
         quota_exceeded |-> S.providers[name].quota_exceeded,
         quota_daily_remaining |->
             IF name \in DOMAIN S.limits THEN S.limits[name].daily ELSE 0]]

\* get_provider_status, lines 586-602.  'model', 'daily_requests' and
\* 'daily_limit' are copied from fields of the record that are written at
\* construction only, and are left out.
get_provider_status(S) ==
    [name \in DOMAIN S.providers |->
        [available |-> S.providers[name].available,
         priority |-> S.providers[name].priority,
         error_count |-> S.providers[name].error_count,
         consecutive_failures |-> S.providers[name].consecutive_failures,
         disabled |-> name \in S.disabled,
         quota_exceeded |-> S.providers[name].quota_exceeded,
         quota_daily_remaining |->
             IF name \in DOMAIN S.limits
             THEN S.limits[name].daily - S.limits[name].requests_made
             ELSE 0]]

\* What the provider calls answer while the status is being read
StatusOutcomes ==
    {Return(OUT_VARIED), Raise("Exception", EXC_TRANSIENT), Raise("Exception", EXC_QUOTA)}

\* get_provider_status() is called
Status ==
    /\ probe.op = "none"
    /\ probe' = [op |-> "get_provider_status", value |-> get_provider_status(State),
                 before |-> State]
    /\ UNCHANGED <<provider_limits, providers, disabled_providers, fallback_chain, now, call>>

\* The caller has rendered the mapping
StatusRendered ==
    /\ probe.op = "get_provider_status"
    /\ probe' = NoProbe
    /\ UNCHANGED <<provider_limits, providers, disabled_providers, fallback_chain, now, call>>

NextStatus ==
    \/ \E component_type \in CallComponents, data \in DataInputs :
          probe.op = "none" /\ Begin(component_type, data)
    \/ \E outcome \in StatusOutcomes : probe.op = "none" /\ Respond(outcome)
    \/ probe.op = "none" /\ Tick
    \/ Status
    \/ StatusRendered

SpecStatus == Init /\ [][NextStatus]_vars

-----------------------------------------------------------------------------
(* Claims about get_provider_status (specification SpecStatus) *)

\* C22: the mapping get_provider_status has returned has one entry for each
\* configured provider, with disabled = (the name is in disabled_providers),
\* the provider's consecutive_failures and quota_exceeded, and the remaining
\* quota = daily - requests_made of provider_limits; and the call has left
\* provider_limits, providers and disabled_providers as they were.
C22_StatusRead ==
    probe.op = "get_provider_status" =>
        /\ DOMAIN probe.value = DOMAIN providers
        /\ \A name \in DOMAIN providers :
              /\ probe.value[name].disabled = (name \in disabled_providers)
              /\ probe.value[name].consecutive_failures
                     = providers[name].consecutive_failures
              /\ probe.value[name].quota_exceeded = providers[name].quota_exceeded
              /\ probe.value[name].quota_daily_remaining
                     = provider_limits[name].daily - provider_limits[name].requests_made
        /\ State = probe.before

\* The status read while one provider is disabled with failures counted, another
\* is suspended for quota, and requests have been made
C22_Witness ==
    /\ probe.op = "get_provider_status"
    /\ \E p, q \in DOMAIN providers :
          /\ probe.value[p].disabled
          /\ probe.value[p].consecutive_failures > 0
          /\ ~probe.value[p].quota_exceeded
          /\ probe.value[q].quota_exceeded
          /\ probe.value[q].quota_daily_remaining < provider_limits[q].daily

-----------------------------------------------------------------------------
(* Claims about the bookkeeping of one attempt (specification Spec).  They   *)
(* are stated on the step in which the provider call of the attempt in      *)
(* progress is answered: the provider is call.cur, its answer is the last   *)
(* entry of the invoked of the next state.                                  *)

\* The step answers the provider call in progress
Answered == call.pc = "invoking" /\ Len(call'.invoked) = Len(call.invoked) + 1

\* The answer given in the step
Answer == call'.invoked[Len(call'.invoked)].outcome

\* C23: when the provider call raises with a text that holds a quota indicator,
\* the provider gets quota_exceeded, reactivate_at = now + 1 hour and is put in
\* disabled_providers, its consecutive_failures and error_count staying as they
\* were; when it raises with a text without indicator, both counters grow by
\* exactly 1 and quota_exceeded and reactivate_at stay as they were.
C23_QuotaFailure ==
    [][(Answered /\ Answer.kind = "raise") =>
          LET before == providers[call.cur]
              after == providers'[call.cur]
          IN  IF quota_error(Answer.value.s)
              THEN /\ after.quota_exceeded
                   /\ after.reactivate_at = now + COOLDOWN
                   /\ call.cur \in disabled_providers'
                   /\ after.consecutive_failures = before.consecutive_failures
                   /\ after.error_count = before.error_count
              ELSE /\ after.consecutive_failures = before.consecutive_failures + 1
                   /\ after.error_count = before.error_count + 1
                   /\ after.quota_exceeded = before.quota_exceeded
                   /\ after.reactivate_at = before.reactivate_at]_vars

\* A provider that had failed before without quota indicator has answered with
\* a rate-limit error and is suspended with its counters still at that failure
C23_Witness ==
    /\ call.invoked # <<>>
    /\ LET last == call.invoked[Len(call.invoked)]
       IN  /\ last.outcome = Raise("Exception", EXC_QUOTA)
           /\ providers[last.p].quota_exceeded
           /\ providers[last.p].reactivate_at = call.t0 + COOLDOWN
           /\ last.p \in disabled_providers
           /\ providers[last.p].consecutive_failures = 1
           /\ providers[last.p].error_count = 1

\* The provider is in disabled_providers with its consecutive_failures at
\* max_errors and no reactivation scheduled
Tripped(p) ==
    /\ p \in DOMAIN providers
    /\ p \in disabled_providers
    /\ providers[p].consecutive_failures >= providers[p].max_errors
    /\ providers[p].reactivate_at = 0

-----------------------------------------------------------------------------
(* Claims about _register_success (specification SpecConcurrent, in which a *)
(* provider can be put in disabled_providers while a call to it is in       *)
(* progress)                                                                 *)

\* In the step, the provider call of the thread returns an answer that passes
\* line 489 and the validator, so that line 502 registers its success
Succeeds(th) ==
    /\ probe.req[th].pc = "invoking"
    /\ probe'.req[th].pc = "done"
    /\ probe'.req[th].result.kind = "return"
    /\ probe'.req[th].result.value \in Answers
    /\ Accepted(probe'.req[th].result, probe.req[th].component)

-----------------------------------------------------------------------------
(* Claims about the outcome of one attempt (specification Spec) *)

\* A provider answer that passes line 489 and that the validator rejects
Rejected(o, component) ==
    o.kind = "return" /\ ~too_short(o.value) /\ ~validate(o.value, component).ok

\* The manager and the call after the step, leaving out the record of answers
Outcome == <<provider_limits, providers, disabled_providers, call.pc, call.cur,
             call.i, call.tried, call.end, call.result>>

\* C26: when the provider call returns an answer that the validator rejects,
\* the provider's consecutive_failures and error_count grow by exactly 1, it is
\* put in disabled_providers exactly if consecutive_failures has reached
\* max_errors, its quota_exceeded and reactivate_at stay as they were, the call
\* does not end with that answer but goes on with the providers further down
\* the chain, and the manager and the call are left as a provider exception
\* without quota indicator would have left them.
C26_RejectionIsFailure ==
    [][(Answered /\ Rejected(Answer, call.component)) =>
          LET p == call.cur
              before == providers[p]
              after == providers'[p]
              r == try_provider_respond(State, p, Raise("Exception", EXC_TRANSIENT),
                                        call.component, now)
              step == fallback_from(r.S, fallback_chain, call.i + 1, call.best, now)
              c == after_step(call, step)
          IN  /\ after.consecutive_failures = before.consecutive_failures + 1
              /\ after.error_count = before.error_count + 1
              /\ after.quota_exceeded = before.quota_exceeded
              /\ after.reactivate_at = before.reactivate_at
              /\ (p \in disabled_providers') =
                     (p \in disabled_providers
                          \/ after.consecutive_failures >= after.max_errors)
              /\ call'.end # "accepted"
              /\ call'.result # Return(Answer.value)
              /\ call'.i > call.i
              /\ Outcome' = <<step.S.limits, step.S.providers, step.S.disabled,
                              c.pc, c.cur, c.i, c.tried, c.end, c.result>>]_vars

\* A call in which a provider's answer was rejected by the validator, counted
\* as that provider's failure, and the next provider was called
C26_Witness ==
    /\ Len(call.invoked) >= 2
    /\ Rejected(call.invoked[1].outcome, call.component)
    /\ providers[call.invoked[1].p].consecutive_failures
           = call.pre.providers[call.invoked[1].p].consecutive_failures + 1
    /\ ~providers[call.invoked[1].p].quota_exceeded
    /\ call.invoked[2].p # call.invoked[1].p

\* The step has registered a failure of the provider with the message given
FailureRegistered(p, msg) ==
    IF quota_error(msg)
    THEN /\ providers'[p].quota_exceeded
         /\ providers'[p].reactivate_at = now + COOLDOWN
         /\ p \in disabled_providers'
    ELSE /\ providers'[p].consecutive_failures = providers[p].consecutive_failures + 1
         /\ providers'[p].error_count = providers[p].error_count + 1

\* The step has registered a success of the provider
SuccessRegistered(p) ==
    /\ providers'[p].consecutive_failures = 0
    /\ providers'[p].last_success = now
    /\ providers'[p].error_count = providers[p].error_count
    /\ p \notin disabled_providers'

\* C27: the step that answers the provider call of an attempt registers a
\* success of that provider when the answer is accepted and a failure
\* otherwise; an answer that is empty or shorter than 50 characters makes
\* consecutive_failures and error_count grow by 1.
C27_OneRegistration ==
    [][Answered =>
          IF Accepted(Answer, call.component)
          THEN SuccessRegistered(call.cur)
          ELSE FailureRegistered(call.cur,
                                 IF Answer.kind = "raise" THEN Answer.value.s ELSE "")]_vars

\* The provider calls the call has made on the provider: those answered and
\* the one in progress
CallsMade(q) ==
    Cardinality({k \in DOMAIN call.invoked : call.invoked[k].p = q})
        + (IF call.pc = "invoking" /\ call.cur = q THEN 1 ELSE 0)

\* C28: at every point of a call, the requests_made of each provider is its
\* value at the start of the call (after the daily reset, if due) plus the
\* number of provider calls the call has made on it, the one in progress
\* included and whatever the answered ones answered.
C28_IncrementPerAttempt ==
    (call.pc # "idle" /\ call.end # "unavailable") =>
        LET lim == reset_counters(call.pre.limits, call.t0)
        IN  \A q \in Providers :
                provider_limits[q].requests_made = lim[q].requests_made + CallsMade(q)

\* A provider call in progress, already counted, in a call in which another
\* provider raised, answered with too short a text or had its answer rejected
C28_Witness ==
    /\ call.pc = "invoking"
    /\ provider_limits[call.cur].requests_made
           = call.pre.limits[call.cur].requests_made + 1
    /\ Len(call.invoked) = 1
    /\ ~Accepted(call.invoked[1].outcome, call.component)
    /\ provider_limits[call.invoked[1].p].requests_made
           = call.pre.limits[call.invoked[1].p].requests_made + 1

-----------------------------------------------------------------------------
(* Claims about get_best_provider (specification SpecQuota) *)

\* The ordering of a component type: its own, or that of 'general'
Ordering(component_type) ==
    IF component_type \in DOMAIN priority_map
    THEN priority_map[component_type]
    ELSE priority_map.general

\* The places of the ordering whose provider has requests left.  The call has
\* run the daily reset, so the counters are those of the current window.
WithQuota(order) ==
    {i \in DOMAIN order :
        provider_limits[order[i]].requests_made < provider_limits[order[i]].daily}

\* C29: get_best_provider has returned the first provider of the ordering of
\* its component type (of 'general' for a type without ordering) that has
\* requests left, and None exactly when none has, whichever providers are
\* configured and whichever are in disabled_providers.
C29_BestProvider ==
    probe.op = "get_best_provider" =>
        LET order == Ordering(probe.arg)
        IN  /\ (probe.value = NONE) = (WithQuota(order) = {})
            /\ probe.value # NONE =>
                  \E i \in WithQuota(order) :
                      /\ probe.value = order[i]
                      /\ \A j \in WithQuota(order) : i <= j

\* Called with a type that has no ordering while openai is configured,
\* suspended and out of requests: groq, which is not configured, is returned
C29_Witness ==
    /\ probe.op = "get_best_provider"
    /\ probe.arg \notin DOMAIN priority_map
    /\ "openai" \in disabled_providers
    /\ provider_limits["openai"].requests_made = provider_limits["openai"].daily
    /\ probe.value = "groq"
    /\ probe.value \notin DOMAIN providers

-----------------------------------------------------------------------------
(* Claims about the order of the attempts of a call (specification Spec) *)

\* The providers a call is to attempt, in order, as long as none is accepted:
\* with the sweep run on the state the call began in, best_provider if it is
\* configured and not disabled, then the providers of the chain other than
\* best_provider that are not disabled and have requests left
Plan ==
    LET S1 == check_and_reactivate_providers(call.pre, call.t0)
        lim == reset_counters(call.pre.limits, call.t0)
        first == IF /\ call.best # NONE
                    /\ call.best \in DOMAIN providers
                    /\ call.best \notin S1.disabled
                 THEN <<call.best>> ELSE <<>>
    IN  first \o SelectSeq(fallback_chain,
                           LAMBDA q : /\ q # call.best
                                      /\ q \notin S1.disabled
                                      /\ lim[q].requests_made < lim[q].daily)

\* C30: the attempts a call has made are the first providers of its plan, in
\* the order of the plan: best_provider first if the sweep leaves it out of
\* disabled_providers, then the chain in its order without best_provider, the
\* disabled providers and the providers without requests left; and as long as
\* providers of the plan are left, a call is waiting for a provider's answer
\* or has ended with an accepted answer.
C30_AttemptOrder ==
    (call.pc # "idle" /\ call.end # "unavailable") =>
        /\ Len(call.tried) <= Len(Plan)
        /\ \A k \in DOMAIN call.tried : call.tried[k] = Plan[k]
        /\ Len(call.tried) < Len(Plan) => (call.pc = "invoking" \/ call.end = "accepted")
        /\ call.end = "exhausted" => call.tried = Plan

\* A call that began when the suspension of its best_provider was over:
\* the sweep reactivated it, it was attempted first and failed, and the next
\* providers of the chain were attempted in their order, best_provider being
\* passed over at its place in the chain
C30_Witness ==
    /\ Len(call.tried) >= 2
    /\ call.tried[1] = call.best
    /\ call.best \in call.pre.disabled
    /\ ~Accepted(call.invoked[1].outcome, call.component)
    /\ call.i >= 1
    /\ call.tried[Len(call.tried)] = fallback_chain[call.i]
    /\ \E k \in 1..(call.i - 1) : fallback_chain[k] = call.best

-----------------------------------------------------------------------------
(* Emergency content and the final validation of generate_content           *)

\* generate_content, line 554: the test that decides whether the content
\* selected by generate_analysis is handed to validate_content (line 556)
validator_applies(content) ==
    /\ truthy(content)
    /\ ~startswith(content.s, "Erro:")
    /\ ~startswith(content.s, "CONTEÚDO DE EMERGÊNCIA:")

\* The text line 516 builds from the template of a component type
EmergencyText(component_type, data) ==
    Str(format(emergency_templates[component_type],
               dict_get(data, "segmento", "negócios"),
               dict_get(data, "produto", "produto/serviço")))

\* Which emergency texts the test of line 554 hands to the validator
EmergencyRouted ==
    [c \in DOMAIN emergency_templates |->
        [d \in DataInputs |-> validator_applies(EmergencyText(c, d))]]

-----------------------------------------------------------------------------
(* What the operations after startup leave alone                            *)

\* The fields of a provider's record that are set at startup only
Fixed(rec) == [available |-> rec.available, priority |-> rec.priority,
               has_model |-> rec.has_model, max_errors |-> rec.max_errors]

\* C32: no step after startup (the steps of a generate call with the
\* registrations and the reactivation sweep they run, and clock advances)
\* changes the fallback chain, the set of configured providers, or any
\* provider's available flag and priority.
C32_StartupFrame ==
    [][/\ fallback_chain' = fallback_chain
       /\ DOMAIN providers' = DOMAIN providers
       /\ \A p \in DOMAIN providers : Fixed(providers'[p]) = Fixed(providers[p])]_vars

\* A call has ended after a quota suspension and a counted failure, with
\* a success in between: everything that may change has changed.
C32_Witness ==
    /\ call.pc = "done"
    /\ Len(fallback_chain) >= 2
    /\ disabled_providers # {}
    /\ \E p \in DOMAIN providers : providers[p].error_count > 0
    /\ \E p \in DOMAIN providers : providers[p].last_success # NEVER
    /\ \E p \in DOMAIN providers : provider_limits[p].requests_made > 0
    /\ \A p \in DOMAIN providers : providers[p].available

-----------------------------------------------------------------------------
(* Claims about the quota counters and the circuit state of concurrent calls *)

\* Both calls are in the provider call of an attempt on the provider, and
\* both read the same requests_made at line 69
RaceOn(p) ==
    /\ \A th \in Threads : /\ probe.req[th].pc = "invoking"
                           /\ probe.req[th].cur = p
    /\ probe.req["t1"].loaded = probe.req["t2"].loaded

\* C33: with two calls in flight the quota is mis-counted.  requests_made
\* never counts more than the attempts made on the provider; when both calls
\* are in an attempt on the same provider and read the same requests_made
\* before either wrote it, one increment is lost (requests_made is the value
\* read plus 1, below the number of attempts made).
C33_QuotaMiscount ==
    probe.op = "concurrent" =>
        \A p \in DOMAIN provider_limits :
            /\ provider_limits[p].requests_made <= Attempts(p)
            /\ RaceOn(p) =>
                  /\ provider_limits[p].requests_made = probe.req["t1"].loaded + 1
                  /\ provider_limits[p].requests_made < Attempts(p)

\* Both calls passed can_use_provider on a provider with one request left and
\* read its counter before either wrote it: two attempts, beyond the daily
\* limit, counted as one
C33_Witness ==
    /\ probe.op = "concurrent"
    /\ \E p \in DOMAIN provider_limits :
          /\ RaceOn(p)
          /\ Attempts(p) > provider_limits[p].daily
          /\ provider_limits[p].requests_made # Attempts(p)

\* The step of a thread ends at line 448 of a new attempt
StartsAttempt(th) ==
    /\ probe.req[th].pc \in {"start", "done", "invoking"}
    /\ probe'.req[th].pc = "load"

\* C34: with two calls in flight the circuit state flaps.  The step that
\* registers a success of a provider that another call got suspended for
\* quota takes it out of disabled_providers while quota_exceeded stays TRUE
\* and reactivate_at stays ahead; and a provider whose quota_exceeded is TRUE
\* is attempted again exactly after such a release: it is out of
\* disabled_providers, has a success registered and its reactivate_at is
\* still ahead.
C34_CircuitFlaps ==
    [][probe.op = "concurrent" =>
         \A th \in Threads :
            /\ (/\ Succeeds(th)
                /\ probe.req[th].cur \in disabled_providers
                /\ providers[probe.req[th].cur].quota_exceeded) =>
                   LET p == probe.req[th].cur
                   IN  /\ p \notin disabled_providers'
                       /\ providers'[p].quota_exceeded
                       /\ providers'[p].reactivate_at = providers[p].reactivate_at
                       /\ providers'[p].reactivate_at > now'
            /\ (/\ StartsAttempt(th)
                /\ providers[probe'.req[th].cur].quota_exceeded) =>
                   LET p == probe'.req[th].cur
                   IN  /\ p \notin disabled_providers
                       /\ providers[p].last_success # NEVER
                       /\ providers[p].reactivate_at > now]_vars

\* A thread is in an attempt of its second call on a provider that the call
\* of the other thread got suspended and its own first call released:
\* quota_exceeded is TRUE and reactivate_at is ahead
C34_Witness ==
    /\ probe.op = "concurrent"
    /\ \E th, other \in Threads :
          LET rq == probe.req[th]
          IN  /\ th # other
              /\ rq.calls = 2
              /\ rq.pc \in {"load", "store", "invoking"}
              /\ probe.req[other].calls = 1
              /\ probe.req[other].pc = "done"
              /\ rq.cur \notin disabled_providers
              /\ providers[rq.cur].quota_exceeded
              /\ providers[rq.cur].reactivate_at > now

-----------------------------------------------------------------------------
(* Claims about the state that sequential calls reach *)

\* C35: under calls made one after the other and clock advances, every
\* provider's requests_made is at least 0 and at most its daily limit, and
\* every quota_daily_remaining that get_provider_status reports is at least 0.
C35_QuotaWithinLimit ==
    /\ \A p \in DOMAIN provider_limits :
          /\ provider_limits[p].requests_made >= 0
          /\ provider_limits[p].requests_made <= provider_limits[p].daily
    /\ probe.op = "get_provider_status" =>
          \A name \in DOMAIN probe.value : probe.value[name].quota_daily_remaining >= 0

\* The status is read after a call that found a provider's quota used up and
\* went on with another provider: the remaining requests reported are 0
C35_Witness ==
    /\ probe.op = "get_provider_status"
    /\ call.pc = "done"
    /\ \E p \in DOMAIN providers :
          /\ probe.value[p].quota_daily_remaining = 0
          /\ call.pre.limits[p].requests_made = call.pre.limits[p].daily
          /\ call.t0 - call.pre.limits[p].last_reset < DAY
          /\ p \notin call.pre.disabled
          /\ call.tried # <<>>
          /\ p \notin Range(call.tried)

\* C36: in every state that sequential calls reach, a provider whose
\* consecutive_failures is at or above its max_errors is in
\* disabled_providers, and no provider's consecutive_failures is above its
\* max_errors.
C36_ThresholdDisables ==
    \A p \in DOMAIN providers :
        /\ providers[p].consecutive_failures >= providers[p].max_errors =>
              p \in disabled_providers
        /\ providers[p].consecutive_failures <= providers[p].max_errors

\* A call made after a provider's consecutive_failures reached max_errors has
\* ended: the provider is disabled, was not attempted, and its count stands
\* at max_errors
C36_Witness ==
    /\ call.pc = "done"
    /\ \E p \in DOMAIN providers :
          /\ providers[p].consecutive_failures = providers[p].max_errors
          /\ p \in call.pre.disabled
          /\ call.pre.providers[p].consecutive_failures = providers[p].max_errors
          /\ p \in disabled_providers
          /\ p \notin Range(call.tried)

\* The provider is suspended for quota: quota_exceeded with a reactivation
\* time set
QuotaSuspended(p) == providers[p].quota_exceeded /\ providers[p].reactivate_at > 0

\* The provider's consecutive failures have reached its threshold
ThresholdReached(p) == providers[p].consecutive_failures >= providers[p].max_errors

\* C37: in every state that sequential calls reach, a provider is in
\* disabled_providers exactly if it is suspended for quota or its
\* consecutive_failures has reached max_errors, and never both at once.
C37_ThreeStates ==
    \A p \in DOMAIN providers :
        /\ (p \in disabled_providers) <=> (QuotaSuspended(p) \/ ThresholdReached(p))
        /\ ~(QuotaSuspended(p) /\ ThresholdReached(p))

\* A call has ended with one provider suspended for quota, another disabled by
\* its failures and a third in neither state
C37_Witness ==
    /\ call.pc = "done"
    /\ \E p, q, r \in DOMAIN providers :
          /\ p \in disabled_providers /\ QuotaSuspended(p) /\ ~ThresholdReached(p)
          /\ q \in disabled_providers /\ ThresholdReached(q) /\ ~QuotaSuspended(q)
          /\ r \notin disabled_providers /\ ~QuotaSuspended(r) /\ ~ThresholdReached(r)

-----------------------------------------------------------------------------
(* Termination of a call.  The provider calls of lines 451-487 are the only *)
(* points at which a call waits; a provider call that returns or raises is  *)
(* a Respond step that is eventually taken.                                 *)

\* What the provider calls answer: a text that is too short (nothing is
\* registered), an exception (a failure is registered) and a rate-limit error
\* (the provider is suspended), besides an accepted text
LiveFailures ==
    {Return(OUT_SHORT), Raise("Exception", EXC_TRANSIENT), Raise("Exception", EXC_QUOTA)}

\* The provider call in progress returns or raises
Responds ==
    \/ Respond(Return(OUT_VARIED))
    \/ \E outcome \in LiveFailures : Respond(outcome)

NextLive ==
    \/ \E component_type \in CallComponents, data \in DataInputs : Begin(component_type, data)
    \/ Responds
    \/ Tick

SpecLive == Init /\ [][NextLive]_vars /\ WF_vars(Responds)

\* C38: within one call no provider is attempted twice, no provider's
\* requests_made rises by more than 1, the provider calls made are at most
\* as many as the configured providers, and, every provider call returning or
\* raising, a call that waits for a provider ends.
C38_CallTerminates ==
    /\ [](call.pc # "idle" =>
            /\ \A j, k \in DOMAIN call.tried : call.tried[j] = call.tried[k] => j = k
            /\ \A p \in DOMAIN provider_limits :
                  provider_limits[p].requests_made <= call.pre.limits[p].requests_made + 1
            /\ Len(call.invoked) <= Cardinality(DOMAIN providers)
            /\ Len(call.tried) <= Cardinality(DOMAIN providers))
    /\ (call.pc = "invoking" ~> call.pc = "done")

\* A call has ended after a provider call on each of two providers, the best
\* provider being the second in the chain: the loop passed over it
C38_Witness ==
    /\ call.pc = "done"
    /\ Len(call.invoked) >= 2
    /\ call.tried[1] = call.best
    /\ \E k \in 2..Len(fallback_chain) : fallback_chain[k] = call.best /\ call.i > k

-----------------------------------------------------------------------------
(* The lazy reset of the quota counters (specification SpecQuota) *)

\* The step is a can_use_provider or get_best_provider call
QueryStep ==
    /\ now' = now
    /\ probe'.op \in {"can_use_provider", "get_best_provider"}

\* C39: a can_use_provider or get_best_provider call made less than DAY after
\* a provider's last_reset leaves the provider's requests_made and last_reset
\* as they are; one made DAY or more after it sets requests_made to 0 and
\* last_reset to the time of the call; and whenever a last_reset changes, in
\* any step, it moves ahead by DAY or more (one reset per window of DAY).
C39_LazyReset ==
    [][\A p \in DOMAIN provider_limits :
          /\ QueryStep =>
                IF now - provider_limits[p].last_reset < DAY
                THEN provider_limits'[p] = provider_limits[p]
                ELSE provider_limits'[p] =
                        [provider_limits[p] EXCEPT !.requests_made = 0, !.last_reset = now]
          /\ \/ provider_limits'[p].last_reset = provider_limits[p].last_reset
             \/ provider_limits'[p].last_reset >= provider_limits[p].last_reset + DAY]_vars

\* can_use_provider is called one second after the call that reset the
\* counters, requests having been counted in between: nothing is reset
C39_Witness ==
    /\ probe.op = "can_use_provider"
    /\ probe.arg \in Providers
    /\ probe.at = DAY + 1
    /\ probe.before.last_reset = DAY
    /\ probe.before.requests_made >= 1
    /\ provider_limits[probe.arg] = probe.before

-----------------------------------------------------------------------------
(* The failure counters (specification Spec) *)

\* C40: no step makes a provider's error_count smaller, and in every state
\* error_count is at least consecutive_failures.
C40_ErrorCountMonotone ==
    /\ [](\A p \in DOMAIN providers :
            providers[p].error_count >= providers[p].consecutive_failures)
    /\ [][\A p \in DOMAIN providers :
            providers'[p].error_count >= providers[p].error_count]_vars

\* A call has ended with an accepted answer of a provider that had failed
\* before, and another provider has been reactivated by the sweep after
\* failures: error_count is kept where consecutive_failures is back at 0
C40_Witness ==
    /\ call.pc = "done"
    /\ call.end = "accepted"
    /\ providers[call.cur].error_count > 0
    /\ providers[call.cur].consecutive_failures = 0
    /\ call.pre.providers[call.cur].consecutive_failures > 0
    /\ \E q \in DOMAIN providers \ {call.cur} :
          /\ q \in call.pre.disabled
          /\ q \notin disabled_providers
          /\ call.pre.providers[q].consecutive_failures > 0
          /\ providers[q].consecutive_failures = 0
          /\ providers[q].error_count = call.pre.providers[q].error_count

=============================================================================
